---- MODULE Spec2Model ----
(***************************************************************************)
(* Shallot: forum governance on Sui Move.  Modules shallot::verifier,      *)
(* shallot::forum, shallot::membership, shallot::poll, shallot::ballot and *)
(* shallot::events.  Every entry function is one transaction: it runs its  *)
(* statements in order on a working copy of the object store and either    *)
(* commits the copy or, when an assert! aborts, leaves the store as it was. *)
(***************************************************************************)
EXTENDS Integers, Sequences, FiniteSets, Bags, TLC

\* ----- bounds of the model -----
MaxObjects == 8
MaxPerKind == 2
MaxTime == 1
MaxClockSets == 2
MaxLiveObjects == 6
\* the largest u64 value: 2^64 - 1 in the code, a four-bit word in the model
MAX_U64 == 15

\* ----- inputs -----
Address == {"A", "B"}
ForumCreators == {"A"}
NoSender == ""
NoArgs == << >>
Timestamps == 0 .. MaxTime
NameInputs == {"", "Alpha"}
DescriptionInputs == {"desc"}
PasswordInputs == {"", "pw1", "wrong"}
TitleInputs == {"", "Rename"}
NewNameInputs == {"Beta"}
NewDescriptionInputs == {"desc2"}
DurationInputs == {0, 1}

VARIABLES objects, events, clock, clock_sets, last, client

vars == <<objects, events, clock, clock_sets, last, client>>

\* ----- abort codes -----
E_ACTIVE_POLL_EXISTS == 1
E_NO_ACTIVE_POLL == 2
E_EMPTY_NAME == 3

E_FORUM_HAS_ACTIVE_POLL == 1
poll_E_NOT_MEMBER == 2
E_POLL_NOT_ENDED == 3
E_INVALID_DURATION == 4
E_EMPTY_TITLE == 5

E_VERIFICATION_FAILED == 1
E_ALREADY_MEMBER == 2
membership_E_NOT_MEMBER == 3

E_ALREADY_VOTED == 1
E_POLL_ENDED == 2
E_POLL_FORUM_MISMATCH == 3

E_EMPTY_PASSWORD == 2
\* the Move VM's status for an arithmetic overflow, which ends the transaction
ARITHMETIC_ERROR == 4017

\* ----- the transaction: working copy of the store, events, abort status -----
NoAbort == [module |-> "", code |-> 0]

Abort(m, c) == [module |-> m, code |-> c]

Begin == [objects |-> objects, events |-> events, abort |-> NoAbort]

\* assert!(cond, code) in module m; statements after an abort do not run
assert(st, cond, m, c) ==
    IF st.abort = NoAbort /\ ~cond THEN [st EXCEPT !.abort = Abort(m, c)] ELSE st

\* mutant: the sum is not checked against the word's range
u64_add_unchecked(st, a, b) == st

\* a + b on u64 values: the transaction aborts when the sum leaves the range
u64_add(st, a, b) ==
    IF st.abort = NoAbort /\ b > MAX_U64 - a
    THEN [st EXCEPT !.abort = Abort("move_vm", ARITHMETIC_ERROR)]
    ELSE st

\* ID: the handle of an object; ids of different objects differ
ID(k, n) == [kind |-> k, n |-> n]

\* object::new(ctx): a fresh id, different from every id in the store
object_new(st, k) == ID(k, Len(st.objects[k]) + 1)

\* transfer::share_object / public_share_object / transfer: the object enters the store
share_object(st, k, obj) ==
    IF st.abort = NoAbort THEN [st EXCEPT !.objects[k] = Append(@, obj)] ELSE st

\* event::emit
\* mutant: every event is emitted twice
emit_twice(st, ev) ==
    IF st.abort = NoAbort
    THEN [st EXCEPT !.events = @ (+) SetToBag({ev}) (+) SetToBag({ev})]
    ELSE st

emit(st, ev) ==
    IF st.abort = NoAbort THEN [st EXCEPT !.events = @ (+) SetToBag({ev})] ELSE st

\* option::none / option::some / option::is_some
option_none == << >>

option_some(x) == << x >>

option_is_some(o) == Len(o) = 1

\* string::is_empty
string_is_empty(s) == s = ""

\* the size of a SHA-256 digest in bytes
DIGEST_LENGTH == 32

\* std::hash::sha2_256, collision-free: the digest determines the data
sha2_256(data) == [sha2_256 |-> data, length |-> DIGEST_LENGTH]

\* std::vector::length of a digest
vector_length(digest) == digest.length

\* string::as_bytes / bcs::to_bytes: a fixed-width block per value
as_bytes(s) == << s >>

bcs_to_bytes(x) == << x >>

Kinds == {"Forum", "MemberRegistry", "Membership", "Poll", "VoteRegistry", "Ballot"}

ObjectsOf(objs, k) == 1 .. Len(objs[k])

TotalObjects(objs) ==
    Len(objs.Forum) + Len(objs.MemberRegistry) + Len(objs.Membership)
    + Len(objs.Poll) + Len(objs.VoteRegistry) + Len(objs.Ballot)

\* ===== shallot::verifier =====
create_simple_password_verifier(st, password, timestamp) ==
    [st |-> assert(st, ~string_is_empty(password), "verifier", E_EMPTY_PASSWORD),
     verifier |-> [password_hash |-> sha2_256(as_bytes(password)),
                   created_at |-> timestamp]]

\* mutant: every non-empty input is accepted
verify_user_any_input(verifier, input_password) ==
    IF string_is_empty(input_password) THEN FALSE ELSE TRUE

verify_user(verifier, input_password) ==
    IF string_is_empty(input_password) THEN FALSE
    ELSE sha2_256(as_bytes(input_password)) = verifier.password_hash

\* ===== shallot::forum =====
create_forum(st0, name, description, password, timestamp, sender) ==
    LET s1 == assert(st0, ~string_is_empty(name), "forum", E_EMPTY_NAME)
        v == create_simple_password_verifier(s1, password, timestamp)
        s2 == v.st
        forum_id == object_new(s2, "Forum")
        forum == [kind |-> "Forum",
                  name |-> name,
                  description |-> description,
                  creator |-> sender,
                  verifier |-> v.verifier,
                  member_count |-> 0,
                  active_poll |-> option_none,
                  created_at |-> timestamp]
        s3 == emit(s2, [type |-> "ForumCreated",
                        forum_id |-> forum_id,
                        name |-> name,
                        description |-> description,
                        creator |-> sender,
                        timestamp |-> timestamp])
    IN share_object(s3, "Forum", forum)

has_active_poll(forum) == option_is_some(forum.active_poll)

\* mutant: the check is made but the slot is never written
set_active_poll_no_write(st, f, poll_id) ==
    assert(st, ~option_is_some(st.objects.Forum[f].active_poll),
           "forum", E_ACTIVE_POLL_EXISTS)

\* mutant: the slot always names the first poll
set_active_poll_first_poll(st, f, poll_id) ==
    LET s1 == assert(st, ~option_is_some(st.objects.Forum[f].active_poll),
                     "forum", E_ACTIVE_POLL_EXISTS)
    IN IF s1.abort = NoAbort
       THEN [s1 EXCEPT !.objects.Forum[f].active_poll = option_some(ID("Poll", 1))]
       ELSE s1

set_active_poll(st, f, poll_id) ==
    LET s1 == assert(st, ~option_is_some(st.objects.Forum[f].active_poll),
                     "forum", E_ACTIVE_POLL_EXISTS)
    IN IF s1.abort = NoAbort
       THEN [s1 EXCEPT !.objects.Forum[f].active_poll = option_some(poll_id)]
       ELSE s1

\* mutant: the check is made but the slot is left set
clear_active_poll_no_write(st, f) ==
    assert(st, option_is_some(st.objects.Forum[f].active_poll),
           "forum", E_NO_ACTIVE_POLL)

clear_active_poll(st, f) ==
    LET s1 == assert(st, option_is_some(st.objects.Forum[f].active_poll),
                     "forum", E_NO_ACTIVE_POLL)
    IN IF s1.abort = NoAbort
       THEN [s1 EXCEPT !.objects.Forum[f].active_poll = option_none]
       ELSE s1

\* mutant: a join counts twice
increment_member_count_twice(st, f) ==
    IF st.abort = NoAbort THEN [st EXCEPT !.objects.Forum[f].member_count = @ + 2] ELSE st

increment_member_count(st, f) ==
    IF st.abort = NoAbort
    THEN [st EXCEPT !.objects.Forum[f].member_count = @ + 1]
    ELSE st

\* mutant: name and description are written the wrong way round
update_metadata_swapped(st, f, new_name, new_description, poll_id, timestamp) ==
    IF st.abort = NoAbort
    THEN LET old_name == st.objects.Forum[f].name
             old_description == st.objects.Forum[f].description
             s1 == [st EXCEPT !.objects.Forum[f].name = new_description,
                              !.objects.Forum[f].description = new_name]
         IN emit(s1, [type |-> "ForumMetadataUpdated",
                      forum_id |-> ID("Forum", f),
                      poll_id |-> poll_id,
                      old_name |-> old_name,
                      new_name |-> new_name,
                      old_description |-> old_description,
                      new_description |-> new_description,
                      timestamp |-> timestamp])
    ELSE st

\* mutant: the update also stamps the forum's creation time
update_metadata_restamps(st, f, new_name, new_description, poll_id, timestamp) ==
    IF st.abort = NoAbort
    THEN LET old_name == st.objects.Forum[f].name
             old_description == st.objects.Forum[f].description
             s1 == [st EXCEPT !.objects.Forum[f].name = new_name,
                              !.objects.Forum[f].description = new_description,
                              !.objects.Forum[f].created_at = timestamp]
         IN emit(s1, [type |-> "ForumMetadataUpdated",
                      forum_id |-> ID("Forum", f),
                      poll_id |-> poll_id,
                      old_name |-> old_name,
                      new_name |-> new_name,
                      old_description |-> old_description,
                      new_description |-> new_description,
                      timestamp |-> timestamp])
    ELSE st

update_metadata(st, f, new_name, new_description, poll_id, timestamp) ==
    IF st.abort = NoAbort
    THEN LET old_name == st.objects.Forum[f].name
             old_description == st.objects.Forum[f].description
             s1 == [st EXCEPT !.objects.Forum[f].name = new_name,
                              !.objects.Forum[f].description = new_description]
         IN emit(s1, [type |-> "ForumMetadataUpdated",
                      forum_id |-> ID("Forum", f),
                      poll_id |-> poll_id,
                      old_name |-> old_name,
                      new_name |-> new_name,
                      old_description |-> old_description,
                      new_description |-> new_description,
                      timestamp |-> timestamp])
    ELSE st

\* ===== shallot::membership =====
init_member_registry(st0, forum_id) ==
    share_object(st0, "MemberRegistry", [kind |-> "MemberRegistry",
                       forum_id |-> forum_id,
                       members |-> {},
                       member_list |-> << >>,
                       total_count |-> 0])

is_member(registry, member) == member \in registry.members

\* mutant: the membership gate lets everybody through
verify_member_or_abort_open(st, r, member) == st

\* mutant: the creator of the registry's forum passes the gate without joining
verify_member_or_abort_creator_passes(st, r, member) ==
    LET registry == st.objects.MemberRegistry[r]
    IN assert(st, \/ is_member(registry, member)
                  \/ st.objects.Forum[registry.forum_id.n].creator = member,
              "membership", membership_E_NOT_MEMBER)

verify_member_or_abort(st, r, member) ==
    assert(st, is_member(st.objects.MemberRegistry[r], member), "membership", membership_E_NOT_MEMBER)

\* mutant: the member is added without the duplicate check
add_member_to_registry_no_check(st, r, member) ==
    IF st.abort = NoAbort
    THEN [st EXCEPT !.objects.MemberRegistry[r].members = @ \cup {member},
                    !.objects.MemberRegistry[r].member_list = Append(@, member),
                    !.objects.MemberRegistry[r].total_count = @ + 1]
    ELSE st

\* mutant: the newest member goes to the front of the list
add_member_to_registry_prepends(st, r, member) ==
    LET s1 == assert(st, ~(member \in st.objects.MemberRegistry[r].members),
                     "membership", E_ALREADY_MEMBER)
    IN IF s1.abort = NoAbort
       THEN [s1 EXCEPT !.objects.MemberRegistry[r].members = @ \cup {member},
                       !.objects.MemberRegistry[r].member_list = << member >> \o @,
                       !.objects.MemberRegistry[r].total_count = @ + 1]
       ELSE s1

add_member_to_registry(st, r, member) ==
    LET s1 == assert(st, ~(member \in st.objects.MemberRegistry[r].members),
                     "membership", E_ALREADY_MEMBER)
    IN IF s1.abort = NoAbort
       THEN [s1 EXCEPT !.objects.MemberRegistry[r].members = @ \cup {member},
                       !.objects.MemberRegistry[r].member_list = Append(@, member),
                       !.objects.MemberRegistry[r].total_count = @ + 1]
       ELSE s1

\* mutant: the registry is not checked against the forum
\* get_member_at_index: the member at a 0-based index of the list, or an abort
get_member_at_index(registry, index) ==
    IF index < Len(registry.member_list)
    THEN [abort |-> NoAbort, value |-> registry.member_list[index + 1]]
    ELSE [abort |-> Abort("membership", membership_E_NOT_MEMBER), value |-> NoSender]

join_forum_any_registry(st0, f, r, password, timestamp, sender) ==
    LET forum_id == ID("Forum", f)
        s2 == assert(st0, verify_user(st0.objects.Forum[f].verifier, password),
                     "membership", E_VERIFICATION_FAILED)
        s3 == add_member_to_registry(s2, r, sender)
        membership_id == object_new(s3, "Membership")
        membership == [kind |-> "Membership",
                       forum_id |-> forum_id,
                       member |-> sender,
                       joined_at |-> timestamp,
                       owner |-> sender]
        s4 == increment_member_count(s3, f)
        new_member_count == s4.objects.Forum[f].member_count
        s5 == emit(s4, [type |-> "MemberJoined",
                        forum_id |-> forum_id,
                        member |-> sender,
                        membership_id |-> membership_id,
                        total_members |-> new_member_count,
                        timestamp |-> timestamp])
    IN share_object(s5, "Membership", membership)

join_forum(st0, f, r, password, timestamp, sender) ==
    LET forum_id == ID("Forum", f)
        s1 == assert(st0, st0.objects.MemberRegistry[r].forum_id = forum_id,
                     "membership", E_VERIFICATION_FAILED)
        s2 == assert(s1, verify_user(s1.objects.Forum[f].verifier, password),
                     "membership", E_VERIFICATION_FAILED)
        s3 == add_member_to_registry(s2, r, sender)
        membership_id == object_new(s3, "Membership")
        membership == [kind |-> "Membership",
                       forum_id |-> forum_id,
                       member |-> sender,
                       joined_at |-> timestamp,
                       owner |-> sender]
        s4 == increment_member_count(s3, f)
        new_member_count == s4.objects.Forum[f].member_count
        s5 == emit(s4, [type |-> "MemberJoined",
                        forum_id |-> forum_id,
                        member |-> sender,
                        membership_id |-> membership_id,
                        total_members |-> new_member_count,
                        timestamp |-> timestamp])
    IN share_object(s5, "Membership", membership)

\* ===== shallot::poll =====
\* mutant: the poll is still open at end_time itself
has_poll_ended_late(poll, timestamp) == timestamp > poll.end_time

\* mutant: a poll never counts as ended
has_poll_ended_never(poll, timestamp) == FALSE

has_poll_ended(poll, timestamp) == timestamp >= poll.end_time

\* mutant: a tie counts as passed
get_poll_results_tie_passes(poll) ==
    LET total_votes == poll.yes_votes + poll.no_votes
        passed == poll.yes_votes >= poll.no_votes /\ total_votes > 0
    IN << poll.yes_votes, poll.no_votes, total_votes, passed >>

get_poll_results(poll) ==
    LET total_votes == poll.yes_votes + poll.no_votes
        passed == poll.yes_votes > poll.no_votes /\ total_votes > 0
    IN << poll.yes_votes, poll.no_votes, total_votes, passed >>

\* mutant: no active-poll check, the new poll takes the forum's slot over
create_poll_takes_over(st0, f, r, title, description, new_name, new_description, duration_ms, timestamp, sender) ==
    LET forum_id == ID("Forum", f)
        s1 == assert(st0, ~string_is_empty(title), "poll", E_EMPTY_TITLE)
        s2 == assert(s1, duration_ms > 0, "poll", E_INVALID_DURATION)
        s3 == assert(s2, s2.objects.MemberRegistry[r].forum_id = forum_id,
                     "poll", poll_E_NOT_MEMBER)
        s5 == verify_member_or_abort(s3, r, sender)
        poll_id == object_new(s5, "Poll")
        poll == [kind |-> "Poll",
                 forum_id |-> forum_id,
                 title |-> title,
                 description |-> description,
                 new_name |-> new_name,
                 new_description |-> new_description,
                 creator |-> sender,
                 start_time |-> timestamp,
                 end_time |-> timestamp + duration_ms,
                 yes_votes |-> 0,
                 no_votes |-> 0,
                 member_snapshot |-> s5.objects.MemberRegistry[r].total_count,
                 is_executed |-> FALSE]
        s5a == u64_add(s5, timestamp, duration_ms)
        s6 == IF s5a.abort = NoAbort
              THEN [s5a EXCEPT !.objects.Forum[f].active_poll = option_some(poll_id)]
              ELSE s5a
        s7 == emit(s6, [type |-> "PollCreated",
                        poll_id |-> poll_id,
                        forum_id |-> forum_id,
                        title |-> title,
                        description |-> description,
                        creator |-> sender,
                        start_time |-> timestamp,
                        end_time |-> timestamp + duration_ms,
                        timestamp |-> timestamp])
    IN share_object(s7, "Poll", poll)

create_poll(st0, f, r, title, description, new_name, new_description, duration_ms, timestamp, sender) ==
    LET forum_id == ID("Forum", f)
        s1 == assert(st0, ~string_is_empty(title), "poll", E_EMPTY_TITLE)
        s2 == assert(s1, duration_ms > 0, "poll", E_INVALID_DURATION)
        s3 == assert(s2, s2.objects.MemberRegistry[r].forum_id = forum_id,
                     "poll", poll_E_NOT_MEMBER)
        s4 == verify_member_or_abort(s3, r, sender)
        s5 == assert(s4, ~has_active_poll(s4.objects.Forum[f]),
                     "poll", E_FORUM_HAS_ACTIVE_POLL)
        poll_id == object_new(s5, "Poll")
        poll == [kind |-> "Poll",
                 forum_id |-> forum_id,
                 title |-> title,
                 description |-> description,
                 new_name |-> new_name,
                 new_description |-> new_description,
                 creator |-> sender,
                 start_time |-> timestamp,
                 end_time |-> timestamp + duration_ms,
                 yes_votes |-> 0,
                 no_votes |-> 0,
                 member_snapshot |-> s5.objects.MemberRegistry[r].total_count,
                 is_executed |-> FALSE]
        s5a == u64_add(s5, timestamp, duration_ms)
        s6 == set_active_poll(s5a, f, poll_id)
        s7 == emit(s6, [type |-> "PollCreated",
                        poll_id |-> poll_id,
                        forum_id |-> forum_id,
                        title |-> title,
                        description |-> description,
                        creator |-> sender,
                        start_time |-> timestamp,
                        end_time |-> timestamp + duration_ms,
                        timestamp |-> timestamp])
    IN share_object(s7, "Poll", poll)

\* mutant: only the yes votes are reported as participants
emit_poll_executed_yes_only(st, poll_id, forum_id, yes_votes, no_votes, total_participants, passed, timestamp) ==
    emit(st, [type |-> "PollExecuted",
              poll_id |-> poll_id,
              forum_id |-> forum_id,
              yes_votes |-> yes_votes,
              no_votes |-> no_votes,
              total_participants |-> yes_votes,
              passed |-> passed,
              timestamp |-> timestamp])

emit_poll_executed(st, poll_id, forum_id, yes_votes, no_votes, total_participants, passed, timestamp) ==
    emit(st, [type |-> "PollExecuted",
              poll_id |-> poll_id,
              forum_id |-> forum_id,
              yes_votes |-> yes_votes,
              no_votes |-> no_votes,
              total_participants |-> total_participants,
              passed |-> passed,
              timestamp |-> timestamp])

\* mutant: no check that the poll was already executed
execute_poll_no_executed_check(st0, f, p, timestamp) ==
    LET poll_id == ID("Poll", p)
        s1 == assert(st0, st0.objects.Poll[p].forum_id = ID("Forum", f),
                     "poll", poll_E_NOT_MEMBER)
        s3 == assert(s1, timestamp >= s1.objects.Poll[p].end_time, "poll", E_POLL_NOT_ENDED)
        poll == s3.objects.Poll[p]
        total_votes == poll.yes_votes + poll.no_votes
        passed == poll.yes_votes > poll.no_votes /\ total_votes > 0
        s4 == IF s3.abort = NoAbort
              THEN [s3 EXCEPT !.objects.Poll[p].is_executed = TRUE]
              ELSE s3
        s5 == clear_active_poll(s4, f)
    IN IF passed
       THEN emit_poll_executed(
                update_metadata(s5, f, poll.new_name, poll.new_description, poll_id,
                                timestamp),
                poll_id, poll.forum_id, poll.yes_votes, poll.no_votes, total_votes,
                TRUE, timestamp)
       ELSE emit_poll_executed(
                s5, poll_id, poll.forum_id, poll.yes_votes, poll.no_votes, total_votes,
                FALSE, timestamp)

\* mutant: a poll nobody voted on cannot be executed
execute_poll_needs_votes(st0, f, p, timestamp) ==
    LET poll_id == ID("Poll", p)
        s1 == assert(st0, st0.objects.Poll[p].forum_id = ID("Forum", f),
                     "poll", poll_E_NOT_MEMBER)
        s2 == assert(s1, timestamp >= s1.objects.Poll[p].end_time, "poll", E_POLL_NOT_ENDED)
        s2b == assert(s2, ~s2.objects.Poll[p].is_executed, "poll", E_POLL_NOT_ENDED)
        s3 == assert(s2b, s2b.objects.Poll[p].yes_votes + s2b.objects.Poll[p].no_votes > 0,
                     "poll", E_POLL_NOT_ENDED)
        poll == s3.objects.Poll[p]
        total_votes == poll.yes_votes + poll.no_votes
        passed == poll.yes_votes > poll.no_votes /\ total_votes > 0
        s4 == IF s3.abort = NoAbort
              THEN [s3 EXCEPT !.objects.Poll[p].is_executed = TRUE]
              ELSE s3
        s5 == clear_active_poll(s4, f)
    IN IF passed
       THEN emit_poll_executed(
                update_metadata(s5, f, poll.new_name, poll.new_description, poll_id,
                                timestamp),
                poll_id, poll.forum_id, poll.yes_votes, poll.no_votes, total_votes,
                TRUE, timestamp)
       ELSE emit_poll_executed(
                s5, poll_id, poll.forum_id, poll.yes_votes, poll.no_votes, total_votes,
                FALSE, timestamp)

execute_poll(st0, f, p, timestamp) ==
    LET poll_id == ID("Poll", p)
        s1 == assert(st0, st0.objects.Poll[p].forum_id = ID("Forum", f),
                     "poll", poll_E_NOT_MEMBER)
        s2 == assert(s1, timestamp >= s1.objects.Poll[p].end_time, "poll", E_POLL_NOT_ENDED)
        s3 == assert(s2, ~s2.objects.Poll[p].is_executed, "poll", E_POLL_NOT_ENDED)
        poll == s3.objects.Poll[p]
        total_votes == poll.yes_votes + poll.no_votes
        passed == poll.yes_votes > poll.no_votes /\ total_votes > 0
        s4 == IF s3.abort = NoAbort
              THEN [s3 EXCEPT !.objects.Poll[p].is_executed = TRUE]
              ELSE s3
        s5 == clear_active_poll(s4, f)
    IN IF passed
       THEN emit_poll_executed(
                update_metadata(s5, f, poll.new_name, poll.new_description, poll_id,
                                timestamp),
                poll_id, poll.forum_id, poll.yes_votes, poll.no_votes, total_votes, TRUE, timestamp)
       ELSE emit_poll_executed(
                s5, poll_id, poll.forum_id, poll.yes_votes, poll.no_votes, total_votes,
                FALSE, timestamp)

\* mutant: counting a yes vote also marks the poll as executed
increment_yes_votes_marks_executed(st, p) ==
    IF st.abort = NoAbort
    THEN [st EXCEPT !.objects.Poll[p].yes_votes = @ + 1,
                    !.objects.Poll[p].is_executed = TRUE]
    ELSE st

increment_yes_votes(st, p) ==
    IF st.abort = NoAbort THEN [st EXCEPT !.objects.Poll[p].yes_votes = @ + 1] ELSE st

\* mutant: a no vote takes one yes vote away
increment_no_votes_takes_yes(st, p) ==
    IF st.abort = NoAbort
    THEN [st EXCEPT !.objects.Poll[p].no_votes = @ + 1,
                    !.objects.Poll[p].yes_votes = IF @ > 0 THEN @ - 1 ELSE 0]
    ELSE st

increment_no_votes(st, p) ==
    IF st.abort = NoAbort THEN [st EXCEPT !.objects.Poll[p].no_votes = @ + 1] ELSE st

\* ===== shallot::ballot =====
\* mutant: a new vote registry starts with one vote counted
init_vote_registry_counts_one(st0, poll_id) ==
    share_object(st0, "VoteRegistry", [kind |-> "VoteRegistry",
                       poll_id |-> poll_id,
                       voted_addresses |-> {},
                       total_votes |-> 1])

init_vote_registry(st0, poll_id) ==
    share_object(st0, "VoteRegistry", [kind |-> "VoteRegistry",
                       poll_id |-> poll_id,
                       voted_addresses |-> {},
                       total_votes |-> 0])

\* mutant: the poll does not enter the digest
generate_anonymous_id_voter_only(voter, poll_id) ==
    LET addr_bytes == bcs_to_bytes(voter)
    IN sha2_256(addr_bytes)

generate_anonymous_id(voter, poll_id) ==
    LET addr_bytes == bcs_to_bytes(voter)
        poll_id_bytes == bcs_to_bytes(poll_id)
        data == addr_bytes \o poll_id_bytes
    IN sha2_256(data)

\* mutant: the registry never reports an address as having voted
has_voted_never(vote_registry, voter) == FALSE

has_voted(vote_registry, voter) == voter \in vote_registry.voted_addresses

\* mutant: the already-voted check comes before the poll-ended check
vote_checks_voted_first(st0, p, vr, mr, vote_choice, timestamp, sender) ==
    LET poll_id == ID("Poll", p)
        s1 == assert(st0, st0.objects.VoteRegistry[vr].poll_id = poll_id,
                     "ballot", E_POLL_FORUM_MISMATCH)
        s2 == assert(s1, s1.objects.Poll[p].forum_id = s1.objects.MemberRegistry[mr].forum_id,
                     "ballot", E_POLL_FORUM_MISMATCH)
        s3 == verify_member_or_abort(s2, mr, sender)
        s4 == assert(s3, ~has_voted(s3.objects.VoteRegistry[vr], sender), "ballot", E_ALREADY_VOTED)
        s5 == assert(s4, ~has_poll_ended(s4.objects.Poll[p], timestamp), "ballot", E_POLL_ENDED)
        anonymous_id == generate_anonymous_id(sender, poll_id)
        s6 == IF s5.abort = NoAbort
              THEN [s5 EXCEPT !.objects.VoteRegistry[vr].voted_addresses = @ \cup {sender},
                              !.objects.VoteRegistry[vr].total_votes = @ + 1]
              ELSE s5
        s7 == IF vote_choice THEN increment_yes_votes(s6, p) ELSE increment_no_votes(s6, p)
        ballot == [kind |-> "Ballot",
                   poll_id |-> poll_id,
                   anonymous_voter_id |-> anonymous_id,
                   vote |-> vote_choice,
                   timestamp |-> timestamp]
        s8 == emit(s7, [type |-> "VoteReceived",
                        poll_id |-> poll_id,
                        anonymous_voter_id |-> anonymous_id,
                        timestamp |-> timestamp])
    IN share_object(s8, "Ballot", ballot)

vote(st0, p, vr, mr, vote_choice, timestamp, sender) ==
    LET poll_id == ID("Poll", p)
        s1 == assert(st0, st0.objects.VoteRegistry[vr].poll_id = poll_id,
                     "ballot", E_POLL_FORUM_MISMATCH)
        s2 == assert(s1, s1.objects.Poll[p].forum_id = s1.objects.MemberRegistry[mr].forum_id,
                     "ballot", E_POLL_FORUM_MISMATCH)
        s3 == verify_member_or_abort(s2, mr, sender)
        s4 == assert(s3, ~has_poll_ended(s3.objects.Poll[p], timestamp), "ballot", E_POLL_ENDED)
        s5 == assert(s4, ~has_voted(s4.objects.VoteRegistry[vr], sender), "ballot", E_ALREADY_VOTED)
        anonymous_id == generate_anonymous_id(sender, poll_id)
        s6 == IF s5.abort = NoAbort
              THEN [s5 EXCEPT !.objects.VoteRegistry[vr].voted_addresses = @ \cup {sender},
                              !.objects.VoteRegistry[vr].total_votes = @ + 1]
              ELSE s5
        s7 == IF vote_choice THEN increment_yes_votes(s6, p) ELSE increment_no_votes(s6, p)
        ballot == [kind |-> "Ballot",
                   poll_id |-> poll_id,
                   anonymous_voter_id |-> anonymous_id,
                   vote |-> vote_choice,
                   timestamp |-> timestamp]
        s8 == emit(s7, [type |-> "VoteReceived",
                        poll_id |-> poll_id,
                        anonymous_voter_id |-> anonymous_id,
                        timestamp |-> timestamp])
    IN share_object(s8, "Ballot", ballot)

\* ===== transactions =====
\* A transaction commits its working copy, or aborts and changes nothing.
\* What a transaction leaves behind: its working copy when it ran to the end,
\* the store and the events as they were when it aborted.
\* mutant: the writes made before an abort stay
EffectsFrom_keeps_writes(st0, st) == st

\* a transaction started on st0 and run to working copy st
EffectsFrom(st0, st) ==
    IF st.abort = NoAbort THEN st ELSE [st0 EXCEPT !.abort = st.abort]

Effects(st) == EffectsFrom(Begin, st)

\* A transaction that runs to the end is a step; an aborted one changes nothing.
Transaction(op, sender, args, st) ==
    /\ Effects(st).abort = NoAbort
    /\ TotalObjects(st.objects) <= MaxObjects
    /\ \A k \in Kinds : Len(st.objects[k]) <= MaxPerKind
    /\ objects' = Effects(st).objects
    /\ events' = Effects(st).events
    /\ last' = [op |-> op, sender |-> sender, args |-> args]
    /\ UNCHANGED << clock, clock_sets, client >>

tx_create_forum ==
    \E sender \in ForumCreators, name \in NameInputs, description \in DescriptionInputs,
       password \in PasswordInputs :
        Transaction("create_forum", sender,
                    [name |-> name, description |-> description, password |-> password],
                    create_forum(Begin, name, description, password, clock, sender))

tx_init_member_registry ==
    \E f \in ObjectsOf(objects, "Forum") :
        Transaction("init_member_registry", NoSender, [forum_id |-> ID("Forum", f)],
                    init_member_registry(Begin, ID("Forum", f)))

tx_join_forum ==
    \E sender \in Address, f \in ObjectsOf(objects, "Forum"),
       r \in ObjectsOf(objects, "MemberRegistry"), password \in PasswordInputs :
        Transaction("join_forum", sender,
                    [forum |-> f, registry |-> r, password |-> password],
                    join_forum(Begin, f, r, password, clock, sender))

tx_create_poll ==
    \E sender \in Address, f \in ObjectsOf(objects, "Forum"),
       r \in ObjectsOf(objects, "MemberRegistry"), title \in TitleInputs,
       description \in DescriptionInputs, new_name \in NewNameInputs,
       new_description \in NewDescriptionInputs, duration_ms \in DurationInputs :
        Transaction("create_poll", sender,
                    [forum |-> f, registry |-> r, title |-> title,
                     description |-> description, new_name |-> new_name,
                     new_description |-> new_description, duration_ms |-> duration_ms],
                    create_poll(Begin, f, r, title, description, new_name,
                                new_description, duration_ms, clock, sender))

tx_execute_poll ==
    \E f \in ObjectsOf(objects, "Forum"), p \in ObjectsOf(objects, "Poll") :
        Transaction("execute_poll", NoSender, [forum |-> f, poll |-> p],
                    execute_poll(Begin, f, p, clock))

tx_init_vote_registry ==
    \E p \in ObjectsOf(objects, "Poll") :
        Transaction("init_vote_registry", NoSender, [poll_id |-> ID("Poll", p)],
                    init_vote_registry(Begin, ID("Poll", p)))

tx_vote ==
    \E sender \in Address, p \in ObjectsOf(objects, "Poll"),
       vr \in ObjectsOf(objects, "VoteRegistry"),
       mr \in ObjectsOf(objects, "MemberRegistry"), vote_choice \in BOOLEAN :
        Transaction("vote", sender,
                    [poll |-> p, vote_registry |-> vr, member_registry |-> mr,
                     vote_choice |-> vote_choice],
                    vote(Begin, p, vr, mr, vote_choice, clock, sender))

\* Time is an input of every call: an entry function reads it from the Clock it
\* is handed, and the tests hand different calls different clocks (clock_before,
\* clock_after), so the time of a call may be earlier than that of the call
\* before it.  Only polls read the time, so the model moves the clock once a
\* poll exists, and at most MaxClockSets times.
set_for_testing ==
    \E timestamp_ms \in Timestamps :
        /\ timestamp_ms # clock
        /\ clock_sets < MaxClockSets
        /\ Len(objects.Poll) > 0
        /\ clock' = timestamp_ms
        /\ clock_sets' = clock_sets + 1
        /\ last' = [op |-> "set_for_testing", sender |-> NoSender,
                    args |-> [timestamp_ms |-> timestamp_ms]]
        /\ UNCHANGED << objects, events, client >>

\* sui::transfer::public_transfer on a Membership: the struct has the store
\* ability, so the address that holds it can hand it to any recipient from any
\* module or transaction block.
public_transfer(st, m, recipient) ==
    IF st.abort = NoAbort
    THEN [st EXCEPT !.objects.Membership[m].owner = recipient]
    ELSE st

tx_public_transfer ==
    \E m \in ObjectsOf(objects, "Membership"), recipient \in Address :
        Transaction("public_transfer", objects.Membership[m].owner,
                    [membership |-> m, recipient |-> recipient],
                    public_transfer(Begin, m, recipient))

\* ===== the web client (hooks and in-memory storage) =====
\* client.storage: the forum -> registry id map of utils/storage; client.pending:
\* the forum a createForum call has created and not yet made a registry for;
\* client.warned: the forums for which createForum logged that the registry
\* creation failed; client.result: what the last finished client call returned.
NoRegistry == 0
NoForum == 0
NoResult == [op |-> "", success |-> FALSE, error |-> "", submitted |-> FALSE]

REGISTRY_NOT_FOUND == "Registry ID not found for this forum. The forum may not have been properly created."
WALLET_NOT_CONNECTED == "Please connect your wallet first"
PACKAGE_NOT_CONFIGURED == "Package ID not configured"
VALIDATION_FAILED == "Validation failed"
JOIN_FAILED == "Failed to join forum"

\* a transaction whose input names no object is refused before any code runs
ObjectNotFound == [module |-> "sui", code |-> 0]

\* validateStringLength with a minimum length of 1
validateNonEmpty(str) == str # ""

validateCreateForumForm(name, password) == validateNonEmpty(name) /\ validateNonEmpty(password)

validateJoinForumForm(password) == validateNonEmpty(password)

saveRegistryId(storage, forumId, registryId) == [storage EXCEPT ![forumId] = registryId]

getRegistryId(storage, forumId) == storage[forumId]

\* a client call that throws before it submits anything
Thrown(op, message) ==
    [result |-> [op |-> op, success |-> FALSE, error |-> message, submitted |-> FALSE],
     st |-> Begin]

\* mutant: the form is validated before the registry id is looked up
joinForum_validates_first(forumId, password, currentAccount, packageId) ==
    IF currentAccount = NoSender THEN Thrown("joinForum", WALLET_NOT_CONNECTED)
    ELSE IF ~packageId THEN Thrown("joinForum", PACKAGE_NOT_CONFIGURED)
    ELSE IF ~validateJoinForumForm(password) THEN Thrown("joinForum", VALIDATION_FAILED)
    ELSE IF getRegistryId(client.storage, forumId) = NoRegistry
         THEN Thrown("joinForum", REGISTRY_NOT_FOUND)
    ELSE LET registryId == getRegistryId(client.storage, forumId)
             st == IF registryId \in ObjectsOf(objects, "MemberRegistry")
                   THEN Effects(join_forum(Begin, forumId, registryId, password, clock,
                                           currentAccount))
                   ELSE [Begin EXCEPT !.abort = ObjectNotFound]
         IN [result |-> [op |-> "joinForum",
                         success |-> st.abort = NoAbort,
                         error |-> IF st.abort = NoAbort THEN "" ELSE JOIN_FAILED,
                         submitted |-> TRUE],
             st |-> st]

\* joinForum of useMembership: what it returns or throws, whether it submitted
\* a transaction, and the store the transaction left
joinForum(forumId, password, currentAccount, packageId) ==
    IF currentAccount = NoSender THEN Thrown("joinForum", WALLET_NOT_CONNECTED)
    ELSE IF ~packageId THEN Thrown("joinForum", PACKAGE_NOT_CONFIGURED)
    ELSE IF getRegistryId(client.storage, forumId) = NoRegistry
         THEN Thrown("joinForum", REGISTRY_NOT_FOUND)
    ELSE IF ~validateJoinForumForm(password) THEN Thrown("joinForum", VALIDATION_FAILED)
    ELSE LET registryId == getRegistryId(client.storage, forumId)
             st == IF registryId \in ObjectsOf(objects, "MemberRegistry")
                   THEN Effects(join_forum(Begin, forumId, registryId, password, clock,
                                           currentAccount))
                   ELSE [Begin EXCEPT !.abort = ObjectNotFound]
         IN [result |-> [op |-> "joinForum",
                         success |-> st.abort = NoAbort,
                         error |-> IF st.abort = NoAbort THEN "" ELSE JOIN_FAILED,
                         submitted |-> TRUE],
             st |-> st]

Init ==
    /\ objects = [k \in Kinds |-> << >>]
    /\ events = EmptyBag
    /\ clock = 0
    /\ clock_sets = 0
    /\ last = [op |-> "init", sender |-> NoSender, args |-> NoArgs]
    /\ client = [storage |-> [f \in 1 .. MaxPerKind |-> NoRegistry],
                 pending |-> NoForum,
                 warned |-> {},
                 result |-> NoResult]

Next ==
    \/ tx_create_forum
    \/ tx_init_member_registry
    \/ tx_join_forum
    \/ tx_create_poll
    \/ tx_execute_poll
    \/ tx_init_vote_registry
    \/ tx_vote
    \/ set_for_testing

\* ----- the system under a clock that only moves forward -----
\* The on-chain Clock never goes back.  Time advances one unit per step up to
\* MaxTime + 1, once a poll exists to read it; the store holds at most
\* MaxLiveObjects objects and every poll's end_time is within the clock's range.
InLiveBounds ==
    /\ TotalObjects(objects) <= MaxLiveObjects
    /\ \A p \in DOMAIN objects.Poll : objects.Poll[p].end_time <= MaxTime + 1

increment_for_testing ==
    /\ clock < MaxTime + 1
    /\ Len(objects.Poll) > 0
    /\ clock' = clock + 1
    /\ last' = [op |-> "increment_for_testing", sender |-> NoSender, args |-> NoArgs]
    /\ UNCHANGED << objects, events, clock_sets, client >>

LiveNext ==
    \/ tx_create_forum /\ InLiveBounds'
    \/ tx_init_member_registry /\ InLiveBounds'
    \/ tx_join_forum /\ InLiveBounds'
    \/ tx_create_poll /\ InLiveBounds'
    \/ tx_execute_poll
    \/ tx_init_vote_registry /\ InLiveBounds'
    \/ tx_vote /\ InLiveBounds'
    \/ increment_for_testing

\* time keeps advancing, and somebody calls execute_poll whenever it can succeed
LiveSpec ==
    /\ Init
    /\ [][LiveNext]_vars
    /\ WF_vars(increment_for_testing)
    /\ WF_vars(tx_execute_poll)

Spec == Init /\ [][Next]_vars

\* ===== properties =====
Forums == 1 .. Len(objects.Forum)
MemberRegistries == 1 .. Len(objects.MemberRegistry)
Memberships == 1 .. Len(objects.Membership)
Polls == 1 .. Len(objects.Poll)
VoteRegistries == 1 .. Len(objects.VoteRegistry)
Ballots == 1 .. Len(objects.Ballot)

\* times a caller may hand to a call, one beyond the clock's range included
CallTimestamps == 0 .. MaxTime + 1

EventsOf(type) == {ev \in BagToSet(events) : ev.type = type}

\* every create_poll call on the current store
CreatePollCalls ==
    [f : Forums, r : MemberRegistries, title : TitleInputs,
     description : DescriptionInputs, new_name : NewNameInputs,
     new_description : NewDescriptionInputs, duration_ms : DurationInputs,
     timestamp : CallTimestamps, sender : Address]

CreatePollEffects(c) ==
    Effects(create_poll(Begin, c.f, c.r, c.title, c.description, c.new_name,
                        c.new_description, c.duration_ms, c.timestamp, c.sender))

\* every vote call on the current store
VoteCalls ==
    [p : Polls, vr : VoteRegistries, mr : MemberRegistries, vote_choice : BOOLEAN,
     timestamp : CallTimestamps, sender : Address]

VoteEffects(c) ==
    Effects(vote(Begin, c.p, c.vr, c.mr, c.vote_choice, c.timestamp, c.sender))

\* every execute_poll call on the current store
ExecutePollCalls == [f : Forums, p : Polls, timestamp : CallTimestamps]

ExecutePollEffects(c) == Effects(execute_poll(Begin, c.f, c.p, c.timestamp))

Unchanged(e) == e.objects = objects /\ e.events = events

\* the checks of create_poll that come before its active-poll check
CreatePollReachesActivePollCheck(c) ==
    /\ c.title # ""
    /\ c.duration_ms > 0
    /\ objects.MemberRegistry[c.r].forum_id = ID("Forum", c.f)
    /\ c.sender \in objects.MemberRegistry[c.r].members

UnexecutedPollsOf(f) ==
    {p \in Polls : objects.Poll[p].forum_id = ID("Forum", f) /\ ~objects.Poll[p].is_executed}

\* C1: a forum never has two created-but-unexecuted polls, and every create_poll
\* on a forum whose active_poll is set fails and changes nothing; the failure is
\* E_FORUM_HAS_ACTIVE_POLL whenever the call passes the checks made before the
\* active-poll check (title, duration, registry linkage, membership).
C1_OneActivePoll ==
    /\ \A f \in Forums : Cardinality(UnexecutedPollsOf(f)) <= 1
    /\ \A c \in CreatePollCalls :
          has_active_poll(objects.Forum[c.f]) =>
              /\ CreatePollEffects(c).abort # NoAbort
              /\ Unchanged(CreatePollEffects(c))
              /\ CreatePollReachesActivePollCheck(c) =>
                     CreatePollEffects(c).abort = Abort("poll", E_FORUM_HAS_ACTIVE_POLL)

C1_Witness ==
    \E c \in CreatePollCalls :
        /\ has_active_poll(objects.Forum[c.f])
        /\ CreatePollReachesActivePollCheck(c)
        /\ CreatePollEffects(c).abort = Abort("poll", E_FORUM_HAS_ACTIVE_POLL)
        /\ Len(objects.Poll) = 2

BallotsOf(p, a) ==
    {b \in Ballots : /\ objects.Ballot[b].poll_id = ID("Poll", p)
                     /\ objects.Ballot[b].anonymous_voter_id
                            = generate_anonymous_id(a, ID("Poll", p))}

\* C2: for every poll and address at most one Ballot with the address's anonymous
\* id exists, so the address contributed at most 1 to yes_votes + no_votes.
C2_OneVotePerAddress ==
    \A p \in Polls : \A a \in Address : Cardinality(BallotsOf(p, a)) <= 1

MembershipsOf(f, a) ==
    {m \in Memberships : /\ objects.Membership[m].forum_id = ID("Forum", f)
                         /\ objects.Membership[m].member = a}

\* C3: for every forum and address at most one Membership record exists, and
\* member_count counts every address at most once.
C3_OneMembershipPerAddress ==
    \A f \in Forums :
        /\ \A a \in Address : Cardinality(MembershipsOf(f, a)) <= 1
        /\ objects.Forum[f].member_count
               = Cardinality({a \in Address : MembershipsOf(f, a) # {}})

\* C4: a step that changes a forum's name or description is a successful
\* execute_poll on an unexecuted poll of that forum whose tallies pass, and the
\* new name and description are the poll's proposed values.
C4_MetadataOnlyByPassedPoll ==
    [][\A f \in Forums :
          (\/ objects'.Forum[f].name # objects.Forum[f].name
           \/ objects'.Forum[f].description # objects.Forum[f].description) =>
              /\ last'.op = "execute_poll"
              /\ last'.args.forum = f
              /\ LET poll == objects.Poll[last'.args.poll]
                 IN /\ poll.forum_id = ID("Forum", f)
                    /\ ~poll.is_executed
                    /\ poll.yes_votes > poll.no_votes
                    /\ poll.yes_votes + poll.no_votes > 0
                    /\ objects'.Forum[f].name = poll.new_name
                    /\ objects'.Forum[f].description = poll.new_description]_vars

C4_Witness ==
    /\ last.op = "execute_poll"
    /\ \E ev \in EventsOf("ForumMetadataUpdated") :
          /\ ev.poll_id = ID("Poll", last.args.poll)
          /\ ev.old_name # ev.new_name
          /\ objects.Forum[last.args.forum].name = ev.new_name
          /\ objects.Forum[last.args.forum].description = ev.new_description

\* the PollExecuted record added by a step
NewPollExecuted == {ev \in BagToSet(events') : ev.type = "PollExecuted" /\
                                              CopiesIn(ev, events') > CopiesIn(ev, events)}

\* C5: execute_poll computes passed = (yes > no and yes + no > 0) on the tallies
\* at execution time, the PollExecuted record carries that boolean, and
\* get_poll_results gives the same boolean for the same tallies; ties and 0-0 fail.
C5_OutcomeRule ==
    [][last'.op = "execute_poll" =>
          LET poll == objects.Poll[last'.args.poll]
              rule == poll.yes_votes > poll.no_votes
                      /\ poll.yes_votes + poll.no_votes > 0
          IN /\ \E ev \in NewPollExecuted :
                   /\ ev.poll_id = ID("Poll", last'.args.poll)
                   /\ ev.yes_votes = poll.yes_votes
                   /\ ev.no_votes = poll.no_votes
                   /\ ev.passed = rule
             /\ get_poll_results(poll)[4] = rule
             /\ get_poll_results(objects'.Poll[last'.args.poll])[4] = rule
             /\ poll.yes_votes = poll.no_votes => ~rule]_vars

C5_Witness ==
    /\ last.op = "execute_poll"
    /\ \E ev \in EventsOf("PollExecuted") :
          /\ ev.poll_id = ID("Poll", last.args.poll)
          /\ ev.yes_votes = 1
          /\ ev.no_votes = 1
          /\ ~ev.passed

EventCount(type, poll_id) ==
    LET evs == {ev \in EventsOf(type) : ev.poll_id = poll_id}
        RECURSIVE Sum(_)
        Sum(S) == IF S = {} THEN 0
                  ELSE LET ev == CHOOSE x \in S : TRUE
                       IN CopiesIn(ev, events) + Sum(S \ {ev})
    IN Sum(evs)

\* C6: execute_poll on a poll whose is_executed is true fails whatever forum and
\* time it is given, and changes nothing and emits nothing, also while a newer
\* poll is active on the forum; so per poll at most one PollExecuted and at most
\* one ForumMetadataUpdated record exists.
C6_ExecuteOnce ==
    /\ \A c \in ExecutePollCalls :
          objects.Poll[c.p].is_executed =>
              /\ ExecutePollEffects(c).abort # NoAbort
              /\ Unchanged(ExecutePollEffects(c))
    /\ \A p \in Polls :
          /\ EventCount("PollExecuted", ID("Poll", p)) <= 1
          /\ EventCount("ForumMetadataUpdated", ID("Poll", p)) <= 1
          /\ objects.Poll[p].is_executed <=> EventCount("PollExecuted", ID("Poll", p)) = 1

C6_Witness ==
    \E c \in ExecutePollCalls : \E q \in Polls :
        /\ objects.Poll[c.p].is_executed
        /\ objects.Poll[c.p].forum_id = ID("Forum", c.f)
        /\ c.timestamp >= objects.Poll[c.p].end_time
        /\ q # c.p
        /\ objects.Forum[c.f].active_poll = option_some(ID("Poll", q))
        /\ ExecutePollEffects(c).abort # NoAbort

\* C7: once a poll's is_executed is true no step changes any of its fields,
\* whatever time the step's caller supplies.
C7_ExecutedIsTerminal ==
    [][\A p \in Polls :
          objects.Poll[p].is_executed => objects'.Poll[p] = objects.Poll[p]]_vars

\* C8: a successful execute_poll sets is_executed and empties the forum's
\* active_poll whatever the outcome; on a failed outcome name and description
\* stay as they were, on a passed one they become the poll's proposed values.
C8_ExecuteEffects ==
    [][last'.op = "execute_poll" =>
          LET f == last'.args.forum
              p == last'.args.poll
              poll == objects.Poll[p]
              passed == poll.yes_votes > poll.no_votes
                        /\ poll.yes_votes + poll.no_votes > 0
          IN /\ ~poll.is_executed
             /\ objects'.Poll[p].is_executed
             /\ objects'.Forum[f].active_poll = option_none
             /\ passed => /\ objects'.Forum[f].name = poll.new_name
                          /\ objects'.Forum[f].description = poll.new_description
             /\ ~passed => /\ objects'.Forum[f].name = objects.Forum[f].name
                           /\ objects'.Forum[f].description
                                  = objects.Forum[f].description]_vars

C8_Witness ==
    /\ last.op = "execute_poll"
    /\ objects.Poll[last.args.poll].is_executed
    /\ objects.Poll[last.args.poll].yes_votes <= objects.Poll[last.args.poll].no_votes
    /\ objects.Forum[last.args.forum].active_poll = option_none
    /\ objects.Forum[last.args.forum].name # objects.Poll[last.args.poll].new_name

\* the checks of vote that come before its poll-ended check
VoteReachesEndedCheck(c) ==
    /\ objects.VoteRegistry[c.vr].poll_id = ID("Poll", c.p)
    /\ objects.Poll[c.p].forum_id = objects.MemberRegistry[c.mr].forum_id
    /\ c.sender \in objects.MemberRegistry[c.mr].members

\* C9: a vote succeeds only at t < end_time and an execute_poll only at
\* t >= end_time; at t >= end_time (t = end_time included) a vote that passes the
\* linkage and membership checks fails with E_POLL_ENDED and changes nothing,
\* while execute_poll on the unexecuted poll with its forum succeeds; at
\* t < end_time that execute_poll fails with E_POLL_NOT_ENDED and leaves
\* is_executed false and the forum's active_poll set; every call rejected with
\* one of the two errors changes nothing.
C9_TimeGates ==
    /\ \A c \in VoteCalls :
          LET end_time == objects.Poll[c.p].end_time
          IN /\ VoteEffects(c).abort = NoAbort => c.timestamp < end_time
             /\ (VoteReachesEndedCheck(c) /\ c.timestamp >= end_time) =>
                    VoteEffects(c).abort = Abort("ballot", E_POLL_ENDED)
             /\ VoteEffects(c).abort = Abort("ballot", E_POLL_ENDED) =>
                    Unchanged(VoteEffects(c))
    /\ \A c \in ExecutePollCalls :
          LET poll == objects.Poll[c.p]
              own == poll.forum_id = ID("Forum", c.f) /\ ~poll.is_executed
          IN /\ ExecutePollEffects(c).abort = NoAbort => c.timestamp >= poll.end_time
             /\ (own /\ c.timestamp >= poll.end_time) =>
                    ExecutePollEffects(c).abort = NoAbort
             /\ (own /\ c.timestamp < poll.end_time) =>
                    /\ ExecutePollEffects(c).abort = Abort("poll", E_POLL_NOT_ENDED)
                    /\ ~ExecutePollEffects(c).objects.Poll[c.p].is_executed
                    /\ ExecutePollEffects(c).objects.Forum[c.f].active_poll
                           = option_some(ID("Poll", c.p))
             /\ ExecutePollEffects(c).abort = Abort("poll", E_POLL_NOT_ENDED) =>
                    Unchanged(ExecutePollEffects(c))

C9_Witness ==
    \E c \in VoteCalls : \E f \in Forums :
        /\ VoteReachesEndedCheck(c)
        /\ c.timestamp = objects.Poll[c.p].end_time
        /\ c.timestamp = clock
        /\ ~has_voted(objects.VoteRegistry[c.vr], c.sender)
        /\ VoteEffects(c).abort = Abort("ballot", E_POLL_ENDED)
        /\ ExecutePollEffects([f |-> f, p |-> c.p, timestamp |-> c.timestamp]).abort
               = NoAbort

\* the checks of create_poll / vote that come before the membership check
CreatePollReachesMemberCheck(c) ==
    /\ c.title # ""
    /\ c.duration_ms > 0
    /\ objects.MemberRegistry[c.r].forum_id = ID("Forum", c.f)

VoteReachesMemberCheck(c) ==
    /\ objects.VoteRegistry[c.vr].poll_id = ID("Poll", c.p)
    /\ objects.Poll[c.p].forum_id = objects.MemberRegistry[c.mr].forum_id

\* C10: a create_poll or vote that succeeds is made by an address contained in
\* the supplied member registry, which is linked to the forum (to the poll's
\* forum); a call by an address not in the supplied registry fails and changes
\* nothing, with membership E_NOT_MEMBER whenever it passes the checks made
\* before the membership check.
C10_MemberGating ==
    /\ \A c \in CreatePollCalls :
          LET registry == objects.MemberRegistry[c.r]
          IN /\ CreatePollEffects(c).abort = NoAbort =>
                    /\ c.sender \in registry.members
                    /\ registry.forum_id = ID("Forum", c.f)
             /\ c.sender \notin registry.members =>
                    /\ CreatePollEffects(c).abort # NoAbort
                    /\ Unchanged(CreatePollEffects(c))
                    /\ CreatePollReachesMemberCheck(c) =>
                           CreatePollEffects(c).abort
                               = Abort("membership", membership_E_NOT_MEMBER)
    /\ \A c \in VoteCalls :
          LET registry == objects.MemberRegistry[c.mr]
          IN /\ VoteEffects(c).abort = NoAbort =>
                    /\ c.sender \in registry.members
                    /\ registry.forum_id = objects.Poll[c.p].forum_id
             /\ c.sender \notin registry.members =>
                    /\ VoteEffects(c).abort # NoAbort
                    /\ Unchanged(VoteEffects(c))
                    /\ VoteReachesMemberCheck(c) =>
                           VoteEffects(c).abort
                               = Abort("membership", membership_E_NOT_MEMBER)

C10_Witness ==
    /\ \E c \in CreatePollCalls :
          /\ CreatePollReachesMemberCheck(c)
          /\ c.sender \notin objects.MemberRegistry[c.r].members
          /\ ~has_active_poll(objects.Forum[c.f])
          /\ CreatePollEffects(c).abort = Abort("membership", membership_E_NOT_MEMBER)
    /\ \E c \in VoteCalls :
          /\ VoteReachesMemberCheck(c)
          /\ c.sender \notin objects.MemberRegistry[c.mr].members
          /\ c.timestamp < objects.Poll[c.p].end_time
          /\ VoteEffects(c).abort = Abort("membership", membership_E_NOT_MEMBER)

\* every join_forum call on the current store
JoinForumCalls ==
    [f : Forums, r : MemberRegistries, password : PasswordInputs,
     timestamp : CallTimestamps, sender : Address]

JoinForumEffects(c) ==
    Effects(join_forum(Begin, c.f, c.r, c.password, c.timestamp, c.sender))

\* the secret a forum was created with: the data of the stored digest
CreationSecret(f) == objects.Forum[f].verifier.password_hash.sha2_256[1]

\* C11: verify_user is true exactly for a non-empty input equal to the secret
\* the forum was created with; a join_forum whose secret is empty or differs from
\* it fails with E_VERIFICATION_FAILED and changes no registry, member_count or
\* Membership and emits nothing.
C11_WrongSecretRejected ==
    /\ last.op = "create_forum" =>
           /\ last.args.password # ""
           /\ CreationSecret(Len(objects.Forum)) = last.args.password
    /\ \A c \in JoinForumCalls :
          LET wrong == c.password = "" \/ c.password # CreationSecret(c.f)
          IN /\ verify_user(objects.Forum[c.f].verifier, c.password) <=> ~wrong
             /\ wrong =>
                    /\ JoinForumEffects(c).abort
                           = Abort("membership", E_VERIFICATION_FAILED)
                    /\ Unchanged(JoinForumEffects(c))

C11_Witness ==
    \E c \in JoinForumCalls : \E d \in JoinForumCalls :
        /\ objects.MemberRegistry[c.r].forum_id = ID("Forum", c.f)
        /\ c.sender \notin objects.MemberRegistry[c.r].members
        /\ CreationSecret(c.f) = "pw1"
        /\ c.password = "wrong"
        /\ objects.Forum[c.f].member_count = 0
        /\ JoinForumEffects(c).abort = Abort("membership", E_VERIFICATION_FAILED)
        /\ d = [c EXCEPT !.password = ""]
        /\ JoinForumEffects(d).abort = Abort("membership", E_VERIFICATION_FAILED)

\* the store with every forum's creator field set to address a
WithCreator(objs, a) ==
    [objs EXCEPT !.Forum = [i \in DOMAIN objs.Forum |-> [objs.Forum[i] EXCEPT !.creator = a]]]

BeginWithCreator(a) == [Begin EXCEPT !.objects = WithCreator(objects, a)]

\* two runs of one call, on stores that differ in the creator fields only, end
\* the same way: same abort, and on success the same store and events
SameOutcome(st, st_a, a) ==
    /\ st.abort = st_a.abort
    /\ st.abort = NoAbort =>
           /\ WithCreator(st.objects, a) = WithCreator(st_a.objects, a)
           /\ st.events = st_a.events

RegistriesOf(f) == {r \in MemberRegistries : objects.MemberRegistry[r].forum_id = ID("Forum", f)}

\* C12: the outcome of join_forum, create_poll, vote and execute_poll does not
\* depend on any forum's creator field, so it is the same whether or not the
\* caller is the creator; right after create_forum the new forum has
\* member_count 0 and no registry holds its creator; an address is in a registry
\* only through a join_forum of its own (a MemberJoined record exists), and the
\* creator's create_poll and vote with a registry that does not hold the creator
\* fail, with membership E_NOT_MEMBER once the earlier checks are passed.
C12_CreatorHasNoRights ==
    /\ \A a \in {b \in Address : WithCreator(objects, b) # objects} :
          /\ \A c \in JoinForumCalls :
                SameOutcome(join_forum(Begin, c.f, c.r, c.password, c.timestamp, c.sender),
                            join_forum(BeginWithCreator(a), c.f, c.r, c.password,
                                       c.timestamp, c.sender), a)
          /\ \A c \in CreatePollCalls :
                SameOutcome(create_poll(Begin, c.f, c.r, c.title, c.description, c.new_name,
                                        c.new_description, c.duration_ms, c.timestamp,
                                        c.sender),
                            create_poll(BeginWithCreator(a), c.f, c.r, c.title,
                                        c.description, c.new_name, c.new_description,
                                        c.duration_ms, c.timestamp, c.sender), a)
          /\ \A c \in VoteCalls :
                SameOutcome(vote(Begin, c.p, c.vr, c.mr, c.vote_choice, c.timestamp, c.sender),
                            vote(BeginWithCreator(a), c.p, c.vr, c.mr, c.vote_choice,
                                 c.timestamp, c.sender), a)
          /\ \A c \in ExecutePollCalls :
                SameOutcome(execute_poll(Begin, c.f, c.p, c.timestamp),
                            execute_poll(BeginWithCreator(a), c.f, c.p, c.timestamp), a)
    /\ last.op = "create_forum" =>
           LET f == Len(objects.Forum)
           IN /\ objects.Forum[f].creator = last.sender
              /\ objects.Forum[f].member_count = 0
              /\ \A r \in RegistriesOf(f) :
                    objects.Forum[f].creator \notin objects.MemberRegistry[r].members
    /\ \A r \in MemberRegistries : \A a \in objects.MemberRegistry[r].members :
          \E ev \in EventsOf("MemberJoined") :
              ev.member = a /\ ev.forum_id = objects.MemberRegistry[r].forum_id
    /\ \A c \in CreatePollCalls :
          (/\ c.sender = objects.Forum[c.f].creator
           /\ c.sender \notin objects.MemberRegistry[c.r].members) =>
              /\ CreatePollEffects(c).abort # NoAbort
              /\ CreatePollReachesMemberCheck(c) =>
                     CreatePollEffects(c).abort
                         = Abort("membership", membership_E_NOT_MEMBER)
    /\ \A c \in VoteCalls :
          (/\ c.sender = objects.Forum[objects.Poll[c.p].forum_id.n].creator
           /\ c.sender \notin objects.MemberRegistry[c.mr].members) =>
              /\ VoteEffects(c).abort # NoAbort
              /\ VoteReachesMemberCheck(c) =>
                     VoteEffects(c).abort = Abort("membership", membership_E_NOT_MEMBER)

\* the creator has not joined, another address has: the creator's create_poll
\* and vote are refused where the member's are accepted
C12_Witness ==
    \E c \in CreatePollCalls : \E v \in VoteCalls :
        /\ c.sender = objects.Forum[c.f].creator
        /\ CreatePollReachesMemberCheck(c)
        /\ c.sender \notin objects.MemberRegistry[c.r].members
        /\ objects.MemberRegistry[c.r].members # {}
        /\ CreatePollEffects(c).abort = Abort("membership", membership_E_NOT_MEMBER)
        /\ \E b \in objects.MemberRegistry[c.r].members :
              CreatePollEffects([c EXCEPT !.sender = b]).abort = NoAbort
        /\ c.timestamp = clock
        /\ v.timestamp = clock
        /\ ~objects.Poll[v.p].is_executed
        /\ v.sender = objects.Forum[objects.Poll[v.p].forum_id.n].creator
        /\ VoteReachesMemberCheck(v)
        /\ v.sender \notin objects.MemberRegistry[v.mr].members
        /\ VoteEffects(v).abort = Abort("membership", membership_E_NOT_MEMBER)
        /\ \E b \in objects.MemberRegistry[v.mr].members :
              VoteEffects([v EXCEPT !.sender = b]).abort = NoAbort

\* every create_forum call on the current store
CreateForumCalls ==
    [name : NameInputs, description : DescriptionInputs, password : PasswordInputs,
     timestamp : CallTimestamps, sender : Address]

CreateForumEffects(c) ==
    Effects(create_forum(Begin, c.name, c.description, c.password, c.timestamp, c.sender))

\* the store in which forum f has no active poll, as create_test_forum builds a
\* forum, while an unexecuted poll of it exists, as create_test_poll builds one
BeginWithoutActivePoll(f) == [Begin EXCEPT !.objects.Forum[f].active_poll = option_none]

\* execute_poll on that store: is_executed is written, then clear_active_poll aborts
ExecuteWithoutActivePoll(c) == execute_poll(BeginWithoutActivePoll(c.f), c.f, c.p, c.timestamp)

WritesThenFails(c) ==
    /\ ExecuteWithoutActivePoll(c).abort = Abort("forum", E_NO_ACTIVE_POLL)
    /\ ExecuteWithoutActivePoll(c).objects.Poll[c.p].is_executed
    /\ ~BeginWithoutActivePoll(c.f).objects.Poll[c.p].is_executed

CreatePollOn(st, c) ==
    create_poll(st, c.f, c.r, c.title, c.description, c.new_name, c.new_description,
                c.duration_ms, c.timestamp, c.sender)

\* the create_poll calls that succeed on the current store
CreatePollSucceeds == {c \in CreatePollCalls : CreatePollEffects(c).abort = NoAbort}

\* C14: of two create_poll calls for one forum that would each succeed on the
\* current store, whichever runs first succeeds and the other then fails with
\* E_FORUM_HAS_ACTIVE_POLL and changes nothing; the forum's active_poll is the
\* first one's poll and exactly one PollCreated record, the first one's, is added.
C14_ConcurrentCreatePoll ==
    \A c1 \in CreatePollSucceeds : \A c2 \in CreatePollSucceeds :
        c1.f = c2.f =>
            LET first == CreatePollOn(Begin, c1)
                second == EffectsFrom(first, CreatePollOn(first, c2))
                winner == ID("Poll", Len(objects.Poll) + 1)
            IN /\ first.abort = NoAbort
               /\ second.abort = Abort("poll", E_FORUM_HAS_ACTIVE_POLL)
               /\ second.objects = first.objects
               /\ second.objects.Forum[c1.f].active_poll = option_some(winner)
               /\ Len(second.objects.Poll) = Len(objects.Poll) + 1
               /\ second.objects.Poll[winner.n].creator = c1.sender
               /\ \E ev \in BagToSet(second.events) :
                     /\ ev.type = "PollCreated"
                     /\ ev.poll_id = winner
                     /\ ev.creator = c1.sender
                     /\ second.events = events (+) SetToBag({ev})

C14_Witness ==
    \E c1 \in CreatePollSucceeds : \E c2 \in CreatePollSucceeds :
        /\ c1.f = c2.f
        /\ c1.sender # c2.sender
        /\ c1.timestamp = clock
        /\ c2.timestamp = clock
        /\ EffectsFrom(CreatePollOn(Begin, c1), CreatePollOn(CreatePollOn(Begin, c1), c2)).abort
               = Abort("poll", E_FORUM_HAS_ACTIVE_POLL)
        /\ EffectsFrom(CreatePollOn(Begin, c2), CreatePollOn(CreatePollOn(Begin, c2), c1)).abort
               = Abort("poll", E_FORUM_HAS_ACTIVE_POLL)

C16_SecondVoteRejected ==
    \A c \in VoteCalls :
        c.sender \in objects.VoteRegistry[c.vr].voted_addresses =>
            /\ VoteEffects(c).abort # NoAbort
            /\ Unchanged(VoteEffects(c))
            /\ (VoteReachesEndedCheck(c) /\ c.timestamp < objects.Poll[c.p].end_time) =>
                   VoteEffects(c).abort = Abort("ballot", E_ALREADY_VOTED)

C16_Witness ==
    \E c \in VoteCalls : \E b \in BallotsOf(c.p, c.sender) :
        /\ c.sender \in objects.VoteRegistry[c.vr].voted_addresses
        /\ VoteReachesEndedCheck(c)
        /\ c.timestamp = clock
        /\ c.timestamp < objects.Poll[c.p].end_time
        /\ c.vote_choice # objects.Ballot[b].vote
        /\ VoteEffects(c).abort = Abort("ballot", E_ALREADY_VOTED)
        /\ VoteEffects([c EXCEPT !.vote_choice = ~c.vote_choice]).abort
               = Abort("ballot", E_ALREADY_VOTED)

\* C17: a join_forum by an address that the supplied registry already holds
\* fails and leaves the registry's set, member_list and total_count and the
\* forum's member_count unchanged, with no Membership minted and no MemberJoined
\* record; with the forum's own registry and the correct secret the failure is
\* E_ALREADY_MEMBER.
C17_SecondJoinRejected ==
    \A c \in JoinForumCalls :
        c.sender \in objects.MemberRegistry[c.r].members =>
            /\ JoinForumEffects(c).abort # NoAbort
            /\ Unchanged(JoinForumEffects(c))
            /\ (/\ objects.MemberRegistry[c.r].forum_id = ID("Forum", c.f)
                /\ c.password = CreationSecret(c.f)) =>
                   JoinForumEffects(c).abort = Abort("membership", E_ALREADY_MEMBER)

C17_Witness ==
    \E c \in JoinForumCalls :
        /\ c.sender \in objects.MemberRegistry[c.r].members
        /\ objects.MemberRegistry[c.r].forum_id = ID("Forum", c.f)
        /\ c.password = CreationSecret(c.f)
        /\ c.timestamp = clock
        /\ MembershipsOf(c.f, c.sender) # {}
        /\ JoinForumEffects(c).abort = Abort("membership", E_ALREADY_MEMBER)

\* the last successful entry operation, submitted again by the same caller with
\* the same arguments
ResubmitLast ==
    CASE last.op = "create_forum" ->
             create_forum(Begin, last.args.name, last.args.description,
                          last.args.password, clock, last.sender)
      [] last.op = "init_member_registry" ->
             init_member_registry(Begin, last.args.forum_id)
      [] last.op = "init_vote_registry" ->
             init_vote_registry(Begin, last.args.poll_id)
      [] last.op = "join_forum" ->
             join_forum(Begin, last.args.forum, last.args.registry, last.args.password,
                        clock, last.sender)
      [] last.op = "create_poll" ->
             create_poll(Begin, last.args.forum, last.args.registry, last.args.title,
                         last.args.description, last.args.new_name,
                         last.args.new_description, last.args.duration_ms, clock,
                         last.sender)
      [] last.op = "vote" ->
             vote(Begin, last.args.poll, last.args.vote_registry,
                  last.args.member_registry, last.args.vote_choice, clock, last.sender)
      [] last.op = "execute_poll" ->
             execute_poll(Begin, last.args.forum, last.args.poll, clock)

MutatingOperations ==
    {"create_forum", "init_member_registry", "init_vote_registry", "join_forum",
     "create_poll", "vote", "execute_poll"}

\* C18: an entry operation that has succeeded fails when it is submitted again
\* by the same caller with the same arguments, and applies nothing a second time.
C18_ResubmissionFails ==
    last.op \in MutatingOperations =>
        /\ Effects(ResubmitLast).abort # NoAbort
        /\ Unchanged(Effects(ResubmitLast))

\* the vote registries that pass vote's linkage check for poll p
VoteRegistriesOf(p) ==
    {vr \in VoteRegistries : objects.VoteRegistry[vr].poll_id = ID("Poll", p)}

\* C19: for each forum at most one MemberRegistry passes the linkage check of
\* join_forum, create_poll and vote (registry.forum_id equals the forum's id),
\* and for each poll at most one VoteRegistry passes that of vote
\* (vote_registry.poll_id equals the poll's id).
C19_RegistryOncePerParent ==
    /\ \A f \in Forums : Cardinality(RegistriesOf(f)) <= 1
    /\ \A p \in Polls : Cardinality(VoteRegistriesOf(p)) <= 1

\* C20: execute_poll on an executed poll with its own forum and a time at or
\* after end_time fails with an error different from the one execute_poll
\* reports for a time before end_time.
C20_AlreadyExecutedDistinct ==
    \A c1 \in ExecutePollCalls : \A c2 \in ExecutePollCalls :
        (/\ objects.Poll[c1.p].forum_id = ID("Forum", c1.f)
         /\ objects.Poll[c1.p].is_executed
         /\ c1.timestamp >= objects.Poll[c1.p].end_time
         /\ objects.Poll[c2.p].forum_id = ID("Forum", c2.f)
         /\ c2.timestamp < objects.Poll[c2.p].end_time) =>
            /\ ExecutePollEffects(c1).abort # NoAbort
            /\ ExecutePollEffects(c2).abort = Abort("poll", E_POLL_NOT_ENDED)
            /\ ExecutePollEffects(c1).abort # ExecutePollEffects(c2).abort

\* the linkage each multi-entity operation requires of the entities it is handed
JoinForumLinked(c) == objects.MemberRegistry[c.r].forum_id = ID("Forum", c.f)

CreatePollLinked(c) == objects.MemberRegistry[c.r].forum_id = ID("Forum", c.f)

VoteLinked(c) ==
    /\ objects.VoteRegistry[c.vr].poll_id = ID("Poll", c.p)
    /\ objects.Poll[c.p].forum_id = objects.MemberRegistry[c.mr].forum_id

ExecutePollLinked(c) == objects.Poll[c.p].forum_id = ID("Forum", c.f)

\* C21: join_forum and create_poll succeed only with a registry of the forum,
\* vote only with a vote registry of the poll and a member registry of the
\* poll's forum, execute_poll only with the poll's forum; a call whose entities
\* do not match fails and changes nothing, and every operation that succeeded
\* was made on matching entities.
C21_CrossReferencesValidated ==
    /\ \A c \in JoinForumCalls :
          ~JoinForumLinked(c) =>
              JoinForumEffects(c).abort # NoAbort /\ Unchanged(JoinForumEffects(c))
    /\ \A c \in CreatePollCalls :
          ~CreatePollLinked(c) =>
              CreatePollEffects(c).abort # NoAbort /\ Unchanged(CreatePollEffects(c))
    /\ \A c \in VoteCalls :
          ~VoteLinked(c) => VoteEffects(c).abort # NoAbort /\ Unchanged(VoteEffects(c))
    /\ \A c \in ExecutePollCalls :
          ~ExecutePollLinked(c) =>
              ExecutePollEffects(c).abort # NoAbort /\ Unchanged(ExecutePollEffects(c))
    /\ last.op \in {"join_forum", "create_poll"} =>
           objects.MemberRegistry[last.args.registry].forum_id = ID("Forum", last.args.forum)
    /\ last.op = "vote" =>
           /\ objects.VoteRegistry[last.args.vote_registry].poll_id
                  = ID("Poll", last.args.poll)
           /\ objects.Poll[last.args.poll].forum_id
                  = objects.MemberRegistry[last.args.member_registry].forum_id
    /\ last.op = "execute_poll" =>
           objects.Poll[last.args.poll].forum_id = ID("Forum", last.args.forum)

\* calls that are valid but for the entities they combine
C21_Witness ==
    /\ \E c \in JoinForumCalls :
          /\ ~JoinForumLinked(c)
          /\ c.password = CreationSecret(c.f)
          /\ c.sender \notin objects.MemberRegistry[c.r].members
          /\ JoinForumEffects(c).abort # NoAbort
    /\ \E c \in CreatePollCalls :
          /\ ~CreatePollLinked(c)
          /\ c.title # "" /\ c.duration_ms > 0
          /\ c.sender \in objects.MemberRegistry[c.r].members
          /\ ~has_active_poll(objects.Forum[c.f])
          /\ CreatePollEffects(c).abort # NoAbort
    /\ \E c \in VoteCalls :
          /\ objects.VoteRegistry[c.vr].poll_id = ID("Poll", c.p)
          /\ objects.Poll[c.p].forum_id # objects.MemberRegistry[c.mr].forum_id
          /\ c.sender \in objects.MemberRegistry[c.mr].members
          /\ c.sender \notin objects.VoteRegistry[c.vr].voted_addresses
          /\ c.timestamp < objects.Poll[c.p].end_time
          /\ VoteEffects(c).abort # NoAbort
    /\ \E c \in ExecutePollCalls :
          /\ ~ExecutePollLinked(c)
          /\ ~objects.Poll[c.p].is_executed
          /\ c.timestamp >= objects.Poll[c.p].end_time
          /\ ExecutePollEffects(c).abort # NoAbort

\* C22: a join_forum that fails because the registry is not the forum's reports
\* an error different from the one a join_forum with the forum's registry and a
\* wrong secret reports, and a create_poll that fails because the registry is not
\* the forum's reports an error different from the NotMember errors.
C22_MismatchErrorDistinct ==
    /\ \A c \in JoinForumCalls : \A d \in JoinForumCalls :
          (/\ ~JoinForumLinked(c)
           /\ c.password = CreationSecret(c.f)
           /\ JoinForumLinked(d)
           /\ d.password # CreationSecret(d.f)) =>
              /\ JoinForumEffects(c).abort # NoAbort
              /\ JoinForumEffects(c).abort # JoinForumEffects(d).abort
              /\ JoinForumEffects(c).abort # Abort("membership", E_VERIFICATION_FAILED)
    /\ \A c \in CreatePollCalls :
          (~CreatePollLinked(c) /\ c.title # "" /\ c.duration_ms > 0) =>
              /\ CreatePollEffects(c).abort # NoAbort
              /\ CreatePollEffects(c).abort # Abort("poll", poll_E_NOT_MEMBER)
              /\ CreatePollEffects(c).abort # Abort("membership", membership_E_NOT_MEMBER)

\* C23: a poll is created with is_executed false; is_executed becomes true only
\* in a successful execute_poll on that poll, and once true it stays true.
C23_IsExecutedMonotone ==
    [][/\ \A p \in DOMAIN objects'.Poll :
             p \notin DOMAIN objects.Poll =>
                 /\ last'.op = "create_poll"
                 /\ ~objects'.Poll[p].is_executed
       /\ \A p \in DOMAIN objects.Poll :
             /\ p \in DOMAIN objects'.Poll
             /\ objects.Poll[p].is_executed => objects'.Poll[p].is_executed
             /\ (~objects.Poll[p].is_executed /\ objects'.Poll[p].is_executed) =>
                    /\ last'.op = "execute_poll"
                    /\ last'.args.poll = p]_vars

\* an executed poll has stayed executed while votes were cast on a later poll
C23_Witness ==
    /\ Len(objects.Poll) = 2
    /\ objects.Poll[1].is_executed
    /\ ~objects.Poll[2].is_executed
    /\ last.op = "vote"
    /\ last.args.poll = 2

IsPrefix(s, t) == Len(s) <= Len(t) /\ SubSeq(t, 1, Len(s)) = s

\* C24: in every step every member registry keeps its members (set and list
\* entries, in place) and its total_count does not decrease; every vote registry
\* keeps its voted addresses and its total_votes does not decrease; no poll's
\* yes_votes or no_votes decreases; every published Ballot stays as it is.
C24_AppendOnly ==
    [][/\ \A r \in DOMAIN objects.MemberRegistry :
             /\ r \in DOMAIN objects'.MemberRegistry
             /\ objects'.MemberRegistry[r].forum_id = objects.MemberRegistry[r].forum_id
             /\ \A a \in Address :
                   is_member(objects.MemberRegistry[r], a) =>
                       is_member(objects'.MemberRegistry[r], a)
             /\ IsPrefix(objects.MemberRegistry[r].member_list,
                         objects'.MemberRegistry[r].member_list)
             /\ objects'.MemberRegistry[r].total_count >= objects.MemberRegistry[r].total_count
       /\ \A vr \in DOMAIN objects.VoteRegistry :
             /\ vr \in DOMAIN objects'.VoteRegistry
             /\ objects'.VoteRegistry[vr].poll_id = objects.VoteRegistry[vr].poll_id
             /\ \A a \in Address :
                   has_voted(objects.VoteRegistry[vr], a) =>
                       has_voted(objects'.VoteRegistry[vr], a)
             /\ objects'.VoteRegistry[vr].total_votes >= objects.VoteRegistry[vr].total_votes
       /\ \A p \in DOMAIN objects.Poll :
             /\ p \in DOMAIN objects'.Poll
             /\ objects'.Poll[p].yes_votes >= objects.Poll[p].yes_votes
             /\ objects'.Poll[p].no_votes >= objects.Poll[p].no_votes
       /\ IsPrefix(objects.Ballot, objects'.Ballot)]_vars

\* a second member joined and a second ballot was cast after the first ones
C24_Witness ==
    /\ \E r \in MemberRegistries : Len(objects.MemberRegistry[r].member_list) = 2
    /\ \E vr \in VoteRegistries : objects.VoteRegistry[vr].total_votes = 2
    /\ Len(objects.Ballot) = 2
    /\ objects.Ballot[1].vote # objects.Ballot[2].vote
    /\ last.op = "vote"

\* the package under the forward clock, together with what the store ability
\* allows the holder of a Membership to do
TransferNext ==
    \/ LiveNext
    \/ tx_public_transfer

TransferSpec == Init /\ [][TransferNext]_vars

\* C25: in every reachable state every Membership is held by the address in its
\* member field (no caller's action moves it to another address).
C25_MembershipHeldByMember ==
    \A m \in Memberships : objects.Membership[m].owner = objects.Membership[m].member

\* C26: a step made by vote (sender s, poll p, vote registry vr, choice c) adds s
\* to vr's voted addresses, raises vr.total_votes by exactly 1, raises exactly
\* one of p.yes_votes / p.no_votes by 1 according to c and leaves the other,
\* adds exactly one Ballot {poll id, digest(s, poll id), c, now}, and emits
\* exactly one event, VoteReceived {poll id, anonymous id, timestamp}; the
\* Ballot and the event have these fields only, none of them the address.
C26_VoteEffects ==
    [][last'.op = "vote" =>
          LET s == last'.sender
              p == last'.args.poll
              vr == last'.args.vote_registry
              c == last'.args.vote_choice
              poll_id == ID("Poll", p)
              digest == sha2_256(bcs_to_bytes(s) \o bcs_to_bytes(poll_id))
              registry == objects.VoteRegistry[vr]
              poll == objects.Poll[p]
          IN /\ s \notin registry.voted_addresses
             /\ objects'.VoteRegistry =
                    [objects.VoteRegistry EXCEPT
                        ![vr] = [registry EXCEPT
                                    !.voted_addresses = registry.voted_addresses \cup {s},
                                    !.total_votes = registry.total_votes + 1]]
             /\ objects'.Poll =
                    [objects.Poll EXCEPT
                        ![p] = IF c
                               THEN [poll EXCEPT !.yes_votes = poll.yes_votes + 1]
                               ELSE [poll EXCEPT !.no_votes = poll.no_votes + 1]]
             /\ objects'.Ballot =
                    Append(objects.Ballot,
                           [kind |-> "Ballot",
                            poll_id |-> poll_id,
                            anonymous_voter_id |-> digest,
                            vote |-> c,
                            timestamp |-> clock])
             /\ events' = events (+) SetToBag({[type |-> "VoteReceived",
                                                poll_id |-> poll_id,
                                                anonymous_voter_id |-> digest,
                                                timestamp |-> clock]})
             /\ DOMAIN objects'.Ballot[Len(objects'.Ballot)]
                    = {"kind", "poll_id", "anonymous_voter_id", "vote", "timestamp"}
             /\ objects'.Forum = objects.Forum
             /\ objects'.MemberRegistry = objects.MemberRegistry
             /\ objects'.Membership = objects.Membership]_vars

\* a no vote was just cast on a poll that already had a yes vote
C26_Witness ==
    /\ last.op = "vote"
    /\ ~last.args.vote_choice
    /\ objects.Poll[last.args.poll].yes_votes = 1
    /\ objects.Poll[last.args.poll].no_votes = 1
    /\ objects.VoteRegistry[last.args.vote_registry].total_votes = 2
    /\ Len(objects.Ballot) = 2

\* C27: a step made by join_forum (sender s, forum f, registry r) adds s, not a
\* member before, to r (member set and list, total_count + 1), raises
\* f.member_count by exactly 1, adds exactly one Membership {forum id, s, now}
\* held by s, and emits exactly one event, MemberJoined, whose total_members is
\* f's new member_count.
C27_JoinEffects ==
    [][last'.op = "join_forum" =>
          LET s == last'.sender
              f == last'.args.forum
              r == last'.args.registry
              registry == objects.MemberRegistry[r]
              forum == objects.Forum[f]
          IN /\ ~is_member(registry, s)
             /\ is_member(objects'.MemberRegistry[r], s)
             /\ objects'.MemberRegistry =
                    [objects.MemberRegistry EXCEPT
                        ![r] = [registry EXCEPT
                                   !.members = registry.members \cup {s},
                                   !.member_list = Append(registry.member_list, s),
                                   !.total_count = registry.total_count + 1]]
             /\ objects'.Forum =
                    [objects.Forum EXCEPT
                        ![f] = [forum EXCEPT !.member_count = forum.member_count + 1]]
             /\ objects'.Membership =
                    Append(objects.Membership,
                           [kind |-> "Membership",
                            forum_id |-> ID("Forum", f),
                            member |-> s,
                            joined_at |-> clock,
                            owner |-> s])
             /\ events' = events (+) SetToBag({[type |-> "MemberJoined",
                                                forum_id |-> ID("Forum", f),
                                                member |-> s,
                                                membership_id |-> ID("Membership", Len(objects.Membership) + 1),
                                                total_members |-> objects'.Forum[f].member_count,
                                                timestamp |-> clock]})
             /\ objects'.Poll = objects.Poll
             /\ objects'.VoteRegistry = objects.VoteRegistry
             /\ objects'.Ballot = objects.Ballot]_vars

\* the second member of a forum has just joined
C27_Witness ==
    /\ last.op = "join_forum"
    /\ objects.Forum[last.args.forum].member_count = 2
    /\ objects.MemberRegistry[last.args.registry].total_count = 2
    /\ Len(objects.Membership) = 2
    /\ objects.Membership[1].member # objects.Membership[2].member

\* durations up to the end of the u64 range, beside the ones the system uses
WideDurationInputs == DurationInputs \cup {MAX_U64 - 1, MAX_U64}

WideCreatePollCalls ==
    [f : Forums, r : MemberRegistries, title : TitleInputs,
     description : DescriptionInputs, new_name : NewNameInputs,
     new_description : NewDescriptionInputs, duration_ms : WideDurationInputs,
     timestamp : CallTimestamps, sender : Address]

\* C28: for every create_poll call on every reachable store: an empty title
\* aborts with E_EMPTY_TITLE, and a duration of 0 (title not empty) with
\* E_INVALID_DURATION, with nothing written to the working copy; a call whose
\* now + duration exceeds MAX_U64 fails and changes nothing; a call that succeeds
\* adds one poll with start_time = now, end_time = now + duration > start_time
\* within the u64 range, yes_votes = no_votes = 0, is_executed = false and
\* member_snapshot = the supplied registry's total_count, and sets the forum's
\* active_poll to the new poll's id.
C28_CreatePollFields ==
    \A c \in WideCreatePollCalls :
        LET st == CreatePollOn(Begin, c)
            e == Effects(st)
            p == Len(objects.Poll) + 1
        IN /\ c.title = "" =>
                  /\ st.abort = Abort("poll", E_EMPTY_TITLE)
                  /\ st.objects = objects
                  /\ st.events = events
           /\ (c.title # "" /\ c.duration_ms = 0) =>
                  /\ st.abort = Abort("poll", E_INVALID_DURATION)
                  /\ st.objects = objects
                  /\ st.events = events
           /\ c.timestamp + c.duration_ms > MAX_U64 =>
                  /\ e.abort # NoAbort
                  /\ e.objects = objects
                  /\ e.events = events
           /\ e.abort = NoAbort =>
                  /\ Len(e.objects.Poll) = p
                  /\ e.objects.Poll[p].start_time = c.timestamp
                  /\ e.objects.Poll[p].end_time = c.timestamp + c.duration_ms
                  /\ e.objects.Poll[p].end_time > e.objects.Poll[p].start_time
                  /\ e.objects.Poll[p].end_time <= MAX_U64
                  /\ e.objects.Poll[p].yes_votes = 0
                  /\ e.objects.Poll[p].no_votes = 0
                  /\ ~e.objects.Poll[p].is_executed
                  /\ e.objects.Poll[p].member_snapshot = objects.MemberRegistry[c.r].total_count
                  /\ e.objects.Forum[c.f].active_poll = option_some(ID("Poll", p))

\* a poll was just created by a member, while another forum still accepts a
\* poll: there a call with the longest duration passes every check and
\* overflows at time 1, and one at time 0 succeeds with end_time = MAX_U64
C28_Witness ==
    /\ last.op = "create_poll"
    /\ objects.Poll[Len(objects.Poll)].end_time = clock + last.args.duration_ms
    /\ objects.Poll[Len(objects.Poll)].member_snapshot = 1
    /\ \E c \in WideCreatePollCalls :
          /\ c.duration_ms = MAX_U64
          /\ c.timestamp = 1
          /\ Effects(CreatePollOn(Begin, c)).abort = Abort("move_vm", ARITHMETIC_ERROR)
    /\ \E c \in WideCreatePollCalls :
          /\ c.duration_ms = MAX_U64
          /\ Effects(CreatePollOn(Begin, c)).abort = NoAbort

\* C29: a step made by execute_poll on poll p adds exactly one PollExecuted
\* event carrying p's yes_votes, no_votes, total_participants = yes_votes +
\* no_votes and passed, whether p passed or not, and adds one
\* ForumMetadataUpdated event (old and new name and description, p's id) exactly
\* when p passed, and no other event; in every reachable state each poll has at
\* most one PollExecuted event.
C29_ExecuteEvents ==
    /\ [](\A p \in Polls : EventCount("PollExecuted", ID("Poll", p)) <= 1)
    /\ [][last'.op = "execute_poll" =>
             LET f == last'.args.forum
                 p == last'.args.poll
                 poll == objects.Poll[p]
                 passed == poll.yes_votes > poll.no_votes
                           /\ poll.yes_votes + poll.no_votes > 0
                 executed == [type |-> "PollExecuted",
                              poll_id |-> ID("Poll", p),
                              forum_id |-> poll.forum_id,
                              yes_votes |-> poll.yes_votes,
                              no_votes |-> poll.no_votes,
                              total_participants |-> poll.yes_votes + poll.no_votes,
                              passed |-> passed,
                              timestamp |-> clock]
                 updated == [type |-> "ForumMetadataUpdated",
                             forum_id |-> ID("Forum", f),
                             poll_id |-> ID("Poll", p),
                             old_name |-> objects.Forum[f].name,
                             new_name |-> poll.new_name,
                             old_description |-> objects.Forum[f].description,
                             new_description |-> poll.new_description,
                             timestamp |-> clock]
             IN events' = IF passed
                          THEN events (+) SetToBag({executed}) (+) SetToBag({updated})
                          ELSE events (+) SetToBag({executed})]_vars

\* a poll on which both members of the forum voted yes was just executed and
\* passed: both events are there
C29_Witness ==
    /\ last.op = "execute_poll"
    /\ \E ev \in EventsOf("PollExecuted") :
          /\ ev.poll_id = ID("Poll", last.args.poll)
          /\ ev.passed
          /\ ev.total_participants = 2
    /\ \E ev \in EventsOf("ForumMetadataUpdated") :
          /\ ev.poll_id = ID("Poll", last.args.poll)
          /\ ev.old_name # ev.new_name

\* the ids of the polls that exist or can still be created
PollIds == {ID("Poll", n) : n \in 1 .. MaxPerKind + 1}

\* C30: the anonymous id depends on (voter, poll id) only: for all voters and
\* poll ids two ids are equal exactly when the voters are equal and the poll ids
\* are equal (so different voters on one poll and one voter on different polls
\* get different ids), every id is 32 bytes long, and in every reachable state
\* every Ballot carries the id of exactly one (voter, poll id), with that poll
\* id its own.
C30_AnonymousIdFunction ==
    /\ \A a1, a2 \in Address : \A p1, p2 \in PollIds :
          /\ generate_anonymous_id(a1, p1) = generate_anonymous_id(a2, p2)
                 <=> (a1 = a2 /\ p1 = p2)
          /\ vector_length(generate_anonymous_id(a1, p1)) = 32
    /\ \A b \in Ballots :
          /\ vector_length(objects.Ballot[b].anonymous_voter_id) = 32
          /\ Cardinality({c \in Address \X PollIds :
                             generate_anonymous_id(c[1], c[2])
                                 = objects.Ballot[b].anonymous_voter_id}) = 1
          /\ \E a \in Address :
                generate_anonymous_id(a, objects.Ballot[b].poll_id)
                    = objects.Ballot[b].anonymous_voter_id

\* two voters have voted on the same poll, and their ballots carry different ids
C30_Witness ==
    /\ Len(objects.Ballot) = 2
    /\ objects.Ballot[1].poll_id = objects.Ballot[2].poll_id
    /\ objects.Ballot[1].anonymous_voter_id # objects.Ballot[2].anonymous_voter_id
    /\ last.op = "vote"

\* C31: on every reachable store, update_metadata on a forum, for every name,
\* description, poll id and time, leaves every field of that forum but name and
\* description as it was, and every other object too; and in every step every
\* forum keeps its verifier (stored digest and creation timestamp), its creator
\* and its created_at.
C31_ForumFrame ==
    /\ [](\A f \in Forums : \A new_name \in NewNameInputs \cup NameInputs :
            \A new_description \in NewDescriptionInputs \cup DescriptionInputs :
              \A poll_id \in PollIds : \A timestamp \in CallTimestamps :
                LET st == update_metadata(Begin, f, new_name, new_description,
                                          poll_id, timestamp)
                IN /\ st.abort = NoAbort
                   /\ st.objects =
                         [objects EXCEPT
                             !.Forum[f] = [objects.Forum[f] EXCEPT
                                              !.name = new_name,
                                              !.description = new_description]])
    /\ [][\A f \in DOMAIN objects.Forum :
             /\ f \in DOMAIN objects'.Forum
             /\ objects'.Forum[f].verifier = objects.Forum[f].verifier
             /\ objects'.Forum[f].creator = objects.Forum[f].creator
             /\ objects'.Forum[f].created_at = objects.Forum[f].created_at]_vars

\* a passed poll has just renamed a forum, later than the forum was created
C31_Witness ==
    /\ last.op = "execute_poll"
    /\ objects.Forum[last.args.forum].name = objects.Poll[last.args.poll].new_name
    /\ objects.Forum[last.args.forum].created_at # clock
    /\ \E ev \in EventsOf("ForumMetadataUpdated") :
          /\ ev.poll_id = ID("Poll", last.args.poll)
          /\ ev.old_name # ev.new_name

\* C32: in every reachable state, for every forum: active_poll is some(p) exactly
\* when p is a poll of the forum that is not executed, and is none exactly when
\* every poll of the forum is executed; no execute_poll call, at any time, stops
\* at clear_active_poll's E_NO_ACTIVE_POLL check; and every execute_poll call
\* that succeeds is on the poll the forum's slot holds.
C32_ActivePollSlot ==
    /\ \A f \in Forums :
          /\ \A p \in Polls :
                objects.Forum[f].active_poll = option_some(ID("Poll", p))
                    <=> p \in UnexecutedPollsOf(f)
          /\ objects.Forum[f].active_poll = option_none <=> UnexecutedPollsOf(f) = {}
          /\ \/ objects.Forum[f].active_poll = option_none
             \/ \E p \in Polls : objects.Forum[f].active_poll = option_some(ID("Poll", p))
    /\ \A c \in ExecutePollCalls :
          /\ execute_poll(Begin, c.f, c.p, c.timestamp).abort
                 # Abort("forum", E_NO_ACTIVE_POLL)
          /\ ExecutePollEffects(c).abort = NoAbort =>
                 objects.Forum[c.f].active_poll = option_some(ID("Poll", c.p))

\* a forum whose first poll is executed holds its second poll in the slot, and
\* that poll can be executed now
C32_Witness ==
    \E f \in Forums :
        /\ Len(objects.Poll) = 2
        /\ objects.Poll[1].forum_id = ID("Forum", f)
        /\ objects.Poll[1].is_executed
        /\ objects.Forum[f].active_poll = option_some(ID("Poll", 2))
        /\ \E c \in ExecutePollCalls :
              c.f = f /\ c.p = 2 /\ ExecutePollEffects(c).abort = NoAbort

\* C33: under the clock that only moves forward: every executed poll's end_time
\* has been reached, so every vote call on an executed poll at the current or a
\* later time fails; and every step made by vote is on a poll that is not
\* executed and that its forum's active_poll names.
C33_NoVoteAfterExecution ==
    /\ [](\A p \in Polls : objects.Poll[p].is_executed => objects.Poll[p].end_time <= clock)
    /\ [](\A c \in VoteCalls :
            (objects.Poll[c.p].is_executed /\ c.timestamp >= clock) =>
                VoteEffects(c).abort # NoAbort)
    /\ [][last'.op = "vote" =>
             LET p == last'.args.poll
             IN /\ ~objects.Poll[p].is_executed
                /\ \E f \in Forums :
                      /\ objects.Poll[p].forum_id = ID("Forum", f)
                      /\ objects.Forum[f].active_poll = option_some(ID("Poll", p))]_vars

\* a poll that received a vote has just been executed, and a linked vote call by
\* a member at the current time is turned away because the poll has ended
C33_Witness ==
    /\ last.op = "execute_poll"
    /\ objects.Poll[last.args.poll].is_executed
    /\ objects.Poll[last.args.poll].yes_votes + objects.Poll[last.args.poll].no_votes = 1
    /\ \E c \in VoteCalls :
          /\ c.p = last.args.poll
          /\ c.timestamp = clock
          /\ VoteEffects(c).abort = Abort("ballot", E_POLL_ENDED)

\* C34: in every reachable state, for every forum and every member registry
\* linked to it, the forum's member_count equals the registry's total_count.
C34_MemberCountEqualsRegistry ==
    \A f \in Forums : \A r \in RegistriesOf(f) :
        objects.Forum[f].member_count = objects.MemberRegistry[r].total_count

\* the ballots published for poll p
BallotsFor(p) == {b \in Ballots : objects.Ballot[b].poll_id = ID("Poll", p)}

\* the sum of total_votes over the vote registries in S
SumTotalVotes(S) ==
    LET RECURSIVE Sum(_)
        Sum(T) == IF T = {} THEN 0
                  ELSE LET vr == CHOOSE x \in T : TRUE
                       IN objects.VoteRegistry[vr].total_votes + Sum(T \ {vr})
    IN Sum(S)

\* C35: in every reachable state, for every poll: yes_votes + no_votes equals
\* the number of Ballots published for the poll and the sum of total_votes over
\* the vote registries naming the poll; yes_votes equals the number of those
\* Ballots whose vote is true; and every vote registry's total_votes is the size
\* of its voted set.
C35_TalliesMatchBallots ==
    /\ \A p \in Polls :
          /\ objects.Poll[p].yes_votes + objects.Poll[p].no_votes
                 = Cardinality(BallotsFor(p))
          /\ objects.Poll[p].yes_votes + objects.Poll[p].no_votes
                 = SumTotalVotes(VoteRegistriesOf(p))
          /\ objects.Poll[p].yes_votes
                 = Cardinality({b \in BallotsFor(p) : objects.Ballot[b].vote})
    /\ \A vr \in VoteRegistries :
          objects.VoteRegistry[vr].total_votes
              = Cardinality(objects.VoteRegistry[vr].voted_addresses)

\* a poll with two vote registries has one yes and one no ballot, one vote
\* counted in each registry
C35_Witness ==
    \E p \in Polls :
        /\ Cardinality(VoteRegistriesOf(p)) = 2
        /\ \A vr \in VoteRegistriesOf(p) : objects.VoteRegistry[vr].total_votes = 1
        /\ objects.Poll[p].yes_votes = 1
        /\ objects.Poll[p].no_votes = 1
        /\ Cardinality(BallotsFor(p)) = 2

\* C36: in every reachable state, for every poll, yes_votes + no_votes is at most
\* member_snapshot (the participation rate derived from them is at most 100).
C36_VotesWithinSnapshot ==
    \A p \in Polls :
        objects.Poll[p].yes_votes + objects.Poll[p].no_votes
            <= objects.Poll[p].member_snapshot

\* indices up to and beyond the longest member list
IndexInputs == 0 .. Cardinality(Address) + 1

\* C37: in every reachable state of every member registry, total_count is the
\* length of member_list and the size of the members set, member_list has no
\* duplicates and holds exactly the set's addresses, get_member_at_index(i)
\* returns the list's (i+1)-th entry for i < total_count and fails for
\* i >= total_count; and in every step a member list either stays as it is or
\* gets the address that has just joined through that registry appended at its
\* end (the list is in the order of joining).
C37_MemberListOrdered ==
    /\ [](\A r \in MemberRegistries :
            LET registry == objects.MemberRegistry[r]
            IN /\ registry.total_count = Len(registry.member_list)
               /\ registry.total_count = Cardinality(registry.members)
               /\ {registry.member_list[i] : i \in 1 .. Len(registry.member_list)}
                      = registry.members
               /\ \A i, j \in 1 .. Len(registry.member_list) :
                     registry.member_list[i] = registry.member_list[j] => i = j
               /\ \A i \in IndexInputs :
                     /\ i < registry.total_count =>
                            /\ get_member_at_index(registry, i).abort = NoAbort
                            /\ get_member_at_index(registry, i).value
                                   = registry.member_list[i + 1]
                     /\ i >= registry.total_count =>
                            get_member_at_index(registry, i).abort # NoAbort)
    /\ [][\A r \in DOMAIN objects.MemberRegistry :
             \/ objects'.MemberRegistry[r].member_list
                    = objects.MemberRegistry[r].member_list
             \/ /\ last'.op = "join_forum"
                /\ last'.args.registry = r
                /\ objects'.MemberRegistry[r].member_list
                       = Append(objects.MemberRegistry[r].member_list, last'.sender)
                /\ get_member_at_index(objects'.MemberRegistry[r],
                                       objects.MemberRegistry[r].total_count).value
                       = last'.sender]_vars

\* B joined a registry first and A second: index 0 gives B, index 1 gives A,
\* index 2 fails
C37_Witness ==
    \E r \in MemberRegistries :
        /\ objects.MemberRegistry[r].total_count = 2
        /\ get_member_at_index(objects.MemberRegistry[r], 0).value = "B"
        /\ get_member_at_index(objects.MemberRegistry[r], 1).value = "A"
        /\ get_member_at_index(objects.MemberRegistry[r], 2).abort
               = Abort("membership", membership_E_NOT_MEMBER)
        /\ last.op = "join_forum"
        /\ last.sender = "A"

\* C38: for every vote call on every reachable store the outcome is decided by
\* the first check that fails, in the order linkage, membership, poll ended,
\* already voted: a linkage mismatch gives E_POLL_FORUM_MISMATCH; else a caller
\* outside the member registry gets E_NOT_MEMBER (also on an ended poll); else
\* now >= end_time gives E_POLL_ENDED (also when the caller has voted); else a
\* caller in the vote registry gets E_ALREADY_VOTED; else the vote succeeds.
C38_VoteCheckOrder ==
    \A c \in VoteCalls :
        LET linked == /\ objects.VoteRegistry[c.vr].poll_id = ID("Poll", c.p)
                      /\ objects.Poll[c.p].forum_id = objects.MemberRegistry[c.mr].forum_id
            member == c.sender \in objects.MemberRegistry[c.mr].members
            ended == c.timestamp >= objects.Poll[c.p].end_time
            voted == c.sender \in objects.VoteRegistry[c.vr].voted_addresses
        IN VoteEffects(c).abort =
               IF ~linked THEN Abort("ballot", E_POLL_FORUM_MISMATCH)
               ELSE IF ~member THEN Abort("membership", membership_E_NOT_MEMBER)
               ELSE IF ended THEN Abort("ballot", E_POLL_ENDED)
               ELSE IF voted THEN Abort("ballot", E_ALREADY_VOTED)
               ELSE NoAbort

\* on one store: a non-member's vote on an ended poll is turned away as not a
\* member, and a member who has voted and retries at the end time is turned
\* away because the poll has ended
C38_Witness ==
    /\ \E c \in VoteCalls :
          /\ c.sender \notin objects.MemberRegistry[c.mr].members
          /\ c.timestamp >= objects.Poll[c.p].end_time
          /\ VoteEffects(c).abort = Abort("membership", membership_E_NOT_MEMBER)
    /\ \E c \in VoteCalls :
          /\ c.sender \in objects.VoteRegistry[c.vr].voted_addresses
          /\ c.timestamp >= objects.Poll[c.p].end_time
          /\ VoteEffects(c).abort = Abort("ballot", E_POLL_ENDED)

\* ----- the client's calls as steps -----
\* what every client step leaves alone
ClientFrame == UNCHANGED << clock, clock_sets >>

\* createForum, first half: the form is valid and the create_forum transaction
\* is executed; the call now holds the new forum's id
createForum_forum ==
    \E currentAccount \in ForumCreators, name \in NameInputs,
       description \in DescriptionInputs, password \in PasswordInputs :
        LET st == Effects(create_forum(Begin, name, description, password, clock,
                                       currentAccount))
        IN /\ client.pending = NoForum
           /\ validateCreateForumForm(name, password)
           /\ st.abort = NoAbort
           /\ Len(st.objects.Forum) <= MaxPerKind
           /\ objects' = st.objects
           /\ events' = st.events
           /\ last' = [op |-> "create_forum", sender |-> currentAccount,
                       args |-> [name |-> name, description |-> description,
                                 password |-> password]]
           /\ client' = [client EXCEPT !.pending = Len(st.objects.Forum)]
           /\ ClientFrame
           /\ InLiveBounds'

\* createForum, second half, registry created: the init_member_registry
\* transaction is executed and its registry id saved for the forum
createForum_registry_saved ==
    LET forumId == client.pending
        st == Effects(init_member_registry(Begin, ID("Forum", forumId)))
    IN /\ forumId # NoForum
       /\ Len(st.objects.MemberRegistry) <= MaxPerKind
       /\ objects' = st.objects
       /\ events' = st.events
       /\ last' = [op |-> "init_member_registry", sender |-> NoSender,
                   args |-> [forum_id |-> ID("Forum", forumId)]]
       /\ client' = [client EXCEPT
                        !.storage = saveRegistryId(@, forumId, Len(st.objects.MemberRegistry)),
                        !.pending = NoForum,
                        !.result = [op |-> "createForum", success |-> TRUE,
                                    error |-> "", submitted |-> TRUE]]
       /\ ClientFrame
       /\ InLiveBounds'

\* createForum, second half, registry step failed: signAndExecute or
\* waitForTransaction rejects; the failure is logged and swallowed (a registry
\* transaction that did execute is the tx_init_member_registry step)
createForum_registry_failed ==
    LET forumId == client.pending
    IN /\ forumId # NoForum
       /\ client' = [client EXCEPT
                        !.pending = NoForum,
                        !.warned = @ \cup {forumId},
                        !.result = [op |-> "createForum", success |-> TRUE,
                                    error |-> "", submitted |-> TRUE]]
       /\ UNCHANGED << objects, events, last >>
       /\ ClientFrame

\* a joinForum call from a connected wallet, whatever it returns
call_joinForum ==
    \E forumId \in Forums, password \in PasswordInputs, currentAccount \in Address :
        LET r == joinForum(forumId, password, currentAccount, TRUE)
        IN /\ client' = [client EXCEPT !.result = r.result]
           /\ IF r.result.success
              THEN /\ Len(r.st.objects.Membership) <= MaxPerKind
                   /\ objects' = r.st.objects
                   /\ events' = r.st.events
                   /\ last' = [op |-> "join_forum", sender |-> currentAccount,
                               args |-> [forum |-> forumId,
                                         registry |-> getRegistryId(client.storage, forumId),
                                         password |-> password]]
              ELSE UNCHANGED << objects, events, last >>
           /\ ClientFrame
           /\ InLiveBounds'

\* associateRegistry of the page: the user enters the id of a member registry
\* for a forum
associateRegistry ==
    \E forumId \in Forums, manualRegistryId \in MemberRegistries :
        /\ client' = [client EXCEPT
                         !.storage = saveRegistryId(@, forumId, manualRegistryId),
                         !.result = [op |-> "associateRegistry", success |-> TRUE,
                                     error |-> "", submitted |-> FALSE]]
        /\ UNCHANGED << objects, events, last >>
        /\ ClientFrame

\* the client, with anybody's registry, join and poll transactions beside it
ClientNext ==
    \/ createForum_forum
    \/ createForum_registry_saved
    \/ createForum_registry_failed
    \/ call_joinForum
    \/ associateRegistry
    \/ tx_init_member_registry /\ InLiveBounds'
    \/ tx_join_forum /\ InLiveBounds'
    \/ tx_create_poll /\ InLiveBounds'
    \/ tx_init_vote_registry /\ InLiveBounds'

ClientSpec == Init /\ [][ClientNext]_vars

\* what joinForum returns when no registry id is stored
RegistryNotFound ==
    [op |-> "joinForum", success |-> FALSE, error |-> REGISTRY_NOT_FOUND, submitted |-> FALSE]

\* C39 as stated: once createForum's registry step has failed for a forum, every
\* later joinForum for it (connected wallet) fails with the registry-not-found
\* error before any transaction is submitted.
C39_JoinFailsAfterFailedRegistryStep ==
    \A f \in client.warned : \A password \in PasswordInputs : \A a \in Address :
        joinForum(f, password, a, TRUE).result = RegistryNotFound

\* C39, amended: (1) while no member registry names a forum, its member_count is
\* 0, every join_forum and create_poll on it fails and it has no poll to vote
\* on; (2) the createForum step that ends the call reports success, and when the
\* registry step failed it stores nothing; (3) while no registry id is stored
\* for a forum, every joinForum for it from a connected wallet with the package
\* id configured fails with the registry-not-found error and submits nothing;
\* (4) a registry id gets stored for a forum only by createForum's registry step
\* for that forum or by associateRegistry.
C39_TwoStepCreation ==
    /\ [](\A f \in Forums :
            RegistriesOf(f) = {} =>
                /\ objects.Forum[f].member_count = 0
                /\ \A c \in JoinForumCalls : c.f = f => JoinForumEffects(c).abort # NoAbort
                /\ \A c \in CreatePollCalls : c.f = f => CreatePollEffects(c).abort # NoAbort
                /\ \A p \in Polls : objects.Poll[p].forum_id # ID("Forum", f))
    /\ [](\A f \in Forums :
            getRegistryId(client.storage, f) = NoRegistry =>
                \A password \in PasswordInputs : \A a \in Address :
                    joinForum(f, password, a, TRUE).result = RegistryNotFound)
    /\ [][(client.pending # NoForum /\ client'.pending = NoForum) =>
             /\ client'.result.op = "createForum"
             /\ client'.result.success
             /\ client.pending \in client'.warned =>
                    client'.storage = client.storage]_vars
    /\ [][\A f \in Forums :
             (/\ getRegistryId(client.storage, f) = NoRegistry
              /\ getRegistryId(client'.storage, f) # NoRegistry) =>
                 \/ client'.result.op = "associateRegistry"
                 \/ /\ client'.result.op = "createForum"
                    /\ client.pending = f
                    /\ f \notin client'.warned]_vars

\* createForum's registry step failed for a forum that still has no registry
\* and no stored id, while another forum has one; a joinForum for the first was
\* just turned away with the registry-not-found error
C39_Witness ==
    \E f \in client.warned :
        /\ getRegistryId(client.storage, f) = NoRegistry
        /\ RegistriesOf(f) = {}
        /\ objects.Forum[f].member_count = 0
        /\ MemberRegistries # {}
        /\ client.result = RegistryNotFound

====
